---- MODULE Spec2Model ----
(***************************************************************************)
(* A model of weiboloader's coordination layer: the paginated cursor       *)
(* iterator (nodeiterator.py), its checkpoint manager, the sliding-window  *)
(* rate controller (ratecontrol.py) and the per-target download loop with  *)
(* its per-media worker (weiboloader.py).                                  *)
(***************************************************************************)
EXTENDS Integers, Sequences, FiniteSets, TLC

(***************************************************************************)
(* Bounds of the model.                                                    *)
(***************************************************************************)
\* pages the upstream listing holds
MaxPages == 2
\* posts one page of the listing holds
MaxPageLen == 2
\* the rate controller's configuration: api_limit, api_window, base_delay,
\* max_delay and the positive request_interval tried
Limit == 2
Window == 2
BaseDelay == 1
MaxDelay == 2
RequestInterval == 1
\* the clock's last reading, the calls made to the controller
\* (wait_before_request and handle_response together), and the failures a
\* bucket counts
MaxTime == 3
MaxCalls == 5
MaxFailures == 2
\* jitter_ratio is 1 / JitterDen
JitterDen == 2
\* the chunks a response body is streamed in
MaxChunks == 2
\* the listing of the target that is run, interrupted and resumed: its pages
\* and the posts on a page
RunMaxPages == 2
RunMaxPageLen == 1
\* the calls of acquire_lock made
MaxAcquires == 3
\* the retries argument of request()
MaxRetries == 2
\* the creation times of the posts are 1..MaxCreated
MaxCreated == 2
\* a post has at most MaxJobs media jobs
MaxJobs == 1
\* in the event specification a post has at most EvMaxJobs media jobs
EvMaxJobs == 2
\* the option count is at most MaxCount
MaxCount == 1
\* the number of targets download_targets is called with
MaxTargets == 3
\* the media jobs of the post in the executor, and the largest max_workers
PoolMaxJobs == 3
MaxWorkers == 2
\* the sequential use of the controller: api_limit, api_window, the clock's
\* last reading and the longest run of failures
SeqLimit == 2
SeqWindow == 3
SeqMaxTime == 4
SeqMaxFailures == 3
\* the text of a metadata file reaches the disk in MetaMaxChunks writes
MetaMaxChunks == 2
\* thaw is called at most LifeMaxThaws times on one iterator
LifeMaxThaws == 1

(***************************************************************************)
(* Values.                                                                 *)
(***************************************************************************)
\* Python's None, and the absence of a value in general
None == "None"
\* post identifiers; two posts with the same mid are the same post
Mids == {"m1", "m2"}
\* next-cursor tokens an upstream page carries (None: no token)
Cursors == {None, "c"}
\* the options hash of the current run and the hash of a run with other options
CurHash == "h1"
OtherHash == "h2"
\* values datetime.now().isoformat() may give
Timestamps == {"t1", "t2"}

Range(s) == {s[i] : i \in DOMAIN s}

SeqsUpTo(S, n) == UNION {[1..k -> S] : k \in 0..n}

\* the orders in which list(set) may enumerate the set S
Orderings(S) == {s \in [1..Cardinality(S) -> S] : Range(s) = S}

NoDuplicates(s) == \A i, j \in DOMAIN s : i # j => s[i] # s[j]

(***************************************************************************)
(* The upstream listing: page number -> (posts, next cursor).              *)
(***************************************************************************)
Page == [posts : SeqsUpTo(Mids, MaxPageLen), cursor : Cursors]

Upstreams == SeqsUpTo(Page, MaxPages)

\* context.get_user_posts(uid, page) and its siblings: the listing's page,
\* and nothing past its end
FetchByNumber(u, p) ==
    IF p \in DOMAIN u THEN u[p] ELSE [posts |-> <<>>, cursor |-> None]

(***************************************************************************)
(* NodeIterator.                                                           *)
(***************************************************************************)
NewIterator(oh) ==
    [page |-> 1, cursor |-> None, seen |-> {}, buffer |-> <<>>,
     exhausted |-> FALSE, options_hash |-> oh]

\* _fetch_page as it would be if has_more were the cursor alone
PostFetchPage_CursorOnly(u, it) ==
    LET r == FetchByNumber(u, it.page)
    IN  [posts |-> r.posts, cursor |-> r.cursor, has_more |-> (r.cursor # None)]

\* _PostIterator._fetch_page, paginated mode
PostFetchPage(u, it) ==
    LET r == FetchByNumber(u, it.page)
    IN  [posts |-> r.posts, cursor |-> r.cursor,
         has_more |-> (r.posts # <<>> /\ r.cursor # None)]

\* the posts of a fetched page that __next__ puts into the buffer
Enqueued(posts, seen) == SelectSeq(posts, LAMBDA m : m \notin seen)

\* one turn of the loop of __next__
FetchLoopBody(it, r) ==
    [it EXCEPT !.buffer = @ \o Enqueued(r.posts, it.seen),
               !.cursor = r.cursor,
               !.page = @ + 1,
               !.exhausted = IF ~r.has_more THEN TRUE ELSE @]

RECURSIVE FillBuffer(_, _)
\* the loop of __next__: fetch until a post is buffered or the listing ends
FillBuffer(it, u) ==
    IF it.buffer # <<>> \/ it.exhausted
    THEN it
    ELSE FillBuffer(FetchLoopBody(it, PostFetchPage(u, it)), u)

\* the end of __next__: pop the front post and mark it seen
PopFront(it) ==
    [it EXCEPT !.buffer = Tail(@), !.seen = @ \cup {Head(it.buffer)}]

\* __next__: the iterator after the call and the post returned (None:
\* StopIteration)
IterNext(it, u) ==
    LET f == FillBuffer(it, u)
    IN  IF f.buffer = <<>>
        THEN [it |-> f, post |-> None]
        ELSE [it |-> PopFront(f), post |-> Head(f.buffer)]

\* freeze() as it would be if it left the seen mids out
Freeze_EmptySeen(it, order, ts) ==
    [page |-> it.page, cursor |-> it.cursor, seen_mids |-> <<>>,
     options_hash |-> it.options_hash, timestamp |-> ts]

\* freeze(): order is the order list(self._seen) enumerates the set in,
\* ts the clock's reading
Freeze(it, order, ts) ==
    [page |-> it.page, cursor |-> it.cursor, seen_mids |-> order,
     options_hash |-> it.options_hash, timestamp |-> ts]

RECURSIVE FetchedPages(_, _)
\* the results of the _fetch_page calls one __next__ makes, in order
FetchedPages(it, u) ==
    IF it.buffer # <<>> \/ it.exhausted
    THEN <<>>
    ELSE <<PostFetchPage(u, it)>>
             \o FetchedPages(FetchLoopBody(it, PostFetchPage(u, it)), u)

\* the iterator after freeze() as it would be if freeze emptied the buffer
AfterFreeze_DropsBuffer(it) == [it EXCEPT !.buffer = <<>>]

\* the iterator after freeze(): the method assigns no attribute of self
AfterFreeze(it) == it

\* thaw(state)
Thaw(it, st) ==
    [it EXCEPT !.page = st.page, !.cursor = st.cursor,
               !.seen = Range(st.seen_mids),
               !.options_hash = st.options_hash,
               !.buffer = <<>>, !.exhausted = FALSE]

(***************************************************************************)
(* CheckpointManager: the file <key>.json and the functions on it.         *)
(***************************************************************************)
\* the schema version save writes and load accepts
VERSION == "1"

\* a path that holds no file
Absent == [kind |-> "absent"]
\* a file that is not valid JSON
Garbage == [kind |-> "garbage", of |-> [kind |-> "noise"]]
\* a file holding the first part only of the text of file f
Truncated(f) == [kind |-> "garbage", of |-> f]
\* a file holding valid JSON that is not an object (an array, a string, null)
NonObject == [kind |-> "nonobject"]
\* a file holding the JSON object with the fields f
Object(f) == [kind |-> "object", fields |-> f]

\* the empty file mkstemp creates
EmptyFile == [kind |-> "garbage", of |-> [kind |-> "empty"]]

\* the states save is called with
CursorStates ==
    [page : 1..(MaxPages + 1), cursor : Cursors,
     seen_mids : {<<>>, <<"m1">>, <<"m2", "m1">>},
     options_hash : {CurHash, OtherHash}, timestamp : {None, "t1"}]

\* the dict save builds and json.dump writes, as the object json.load reads
\* back
EncodeState(st) ==
    Object([version |-> VERSION, page |-> st.page, cursor |-> st.cursor,
            seen_mids |-> st.seen_mids, options_hash |-> st.options_hash,
            timestamp |-> st.timestamp])

\* dict.get(key, default)
Get(f, key, default) == IF key \in DOMAIN f THEN f[key] ELSE default

\* load as it would be if it did not read seen_mids back
DecodeFields_DropsSeen(f) ==
    [page |-> f.page,
     cursor |-> Get(f, "cursor", None),
     seen_mids |-> <<>>,
     options_hash |-> Get(f, "options_hash", ""),
     timestamp |-> Get(f, "timestamp", None)]

\* the CursorState load builds from the object's fields
DecodeFields(f) ==
    [page |-> f.page,
     cursor |-> Get(f, "cursor", None),
     seen_mids |-> Get(f, "seen_mids", <<>>),
     options_hash |-> Get(f, "options_hash", ""),
     timestamp |-> Get(f, "timestamp", None)]

\* load(key) of a manager with options hash oh on the file: res is "state"
\* (the state is returned), "none" (None is returned) or "raise" (an
\* exception leaves load)
Load(file, oh) ==
    CASE file.kind = "absent" -> [res |-> "none"]
      [] file.kind = "garbage" -> [res |-> "none"]       \* JSONDecodeError, caught
      [] file.kind = "nonobject" -> [res |-> "raise"]    \* data.get: AttributeError
      [] OTHER ->
           IF \/ Get(file.fields, "version", None) # VERSION
              \/ Get(file.fields, "options_hash", None) # oh
           THEN [res |-> "none"]
           ELSE IF "page" \notin DOMAIN file.fields
           THEN [res |-> "none"]                         \* KeyError, caught
           ELSE [res |-> "state", state |-> DecodeFields(file.fields)]

\* the handler as it would be without its unlink
TmpAfterFailure_Kept(tmp) == tmp

\* save's handler of a failed write, fsync or rename: the temporary file after
\* it
TmpAfterFailure(tmp) == Absent

\* save's os.rename(tmp, path): the destination after it
DestAfterRename(tmp, dest) == tmp

(***************************************************************************)
(* SlidingWindowRateController.                                            *)
(***************************************************************************)
Buckets == {"api", "media"}

\* the threads that call the controller
Callers == {"a", "b"}

\* last_request_at of a bucket that has recorded no request (None)
NoRequest == -1

\* _BucketState()
NewBucket ==
    [timestamps |-> <<>>, last_request_at |-> NoRequest, failures |-> 0,
     backoff_until |-> 0]

Max(a, b) == IF a >= b THEN a ELSE b
Min(a, b) == IF a <= b THEN a ELSE b

RECURSIVE Pow2(_)
Pow2(n) == IF n <= 0 THEN 1 ELSE 2 * Pow2(n - 1)

RECURSIVE EvictOld(_, _)
\* "clean old timestamps": popleft while the oldest is a window or more old
EvictOld(ts, t) ==
    IF ts # <<>> /\ t - Head(ts) >= Window THEN EvictOld(Tail(ts), t) ELSE ts

\* the quota test as it would be if it let one request more into the window
WindowFull_OffByOne(ts) == Len(ts) > Limit

\* the quota test: the window holds api_limit requests
WindowFull(ts) == Len(ts) >= Limit

\* the wait as it would be computed without the backoff term
RequiredWait_NoBackoff(st, bucket, t, interval) ==
    LET w1 == IF WindowFull(st.timestamps)
              THEN Max(0, Head(st.timestamps) + Window - t) ELSE 0
    IN  IF bucket = "api" /\ interval > 0 /\ st.last_request_at # NoRequest
        THEN Max(w1, st.last_request_at + interval - t) ELSE w1

\* "calculate required wait", on the bucket after the eviction
RequiredWait(st, bucket, t, interval) ==
    LET w1 == IF WindowFull(st.timestamps)
              THEN Max(0, Head(st.timestamps) + Window - t) ELSE 0
        w2 == IF bucket = "api" /\ interval > 0 /\ st.last_request_at # NoRequest
              THEN Max(w1, st.last_request_at + interval - t) ELSE w1
    IN  Max(w2, st.backoff_until - t)

\* "record timestamp while holding lock"
Recorded(st, t) ==
    [st EXCEPT !.timestamps = Append(@, t), !.last_request_at = t]

\* the base delay as it would be without the cap
BackoffBase_Uncapped(failures) == BaseDelay * Pow2(failures - 1)

\* base delay of the backoff after the given number of failures
BackoffBase(failures) == Min(BaseDelay * Pow2(failures - 1), MaxDelay)

\* the values base * jitter_ratio * random() may take, random() in [0, 1)
Jitters(base) == {j \in 0..base : JitterDen * j < base} \cup {0}

\* the lock as it would be if it excluded nobody
LockFree_Always(owner) == TRUE

\* the controller's lock (self._lock) can be taken
LockFree(owner) == owner = None

\* the controller's configuration: one _BucketConfig for both buckets, and
\* request_interval
SeqConfigs == [limit : {SeqLimit}, window : {SeqWindow}, interval : 0..(SeqWindow - 1)]

RECURSIVE Evicted(_, _, _)
\* "clean old timestamps" with the window of the bucket's configuration
Evicted(ts, t, window) ==
    IF ts # <<>> /\ t - Head(ts) >= window THEN Evicted(Tail(ts), t, window) ELSE ts

\* the wait as it would be computed without the quota term
WaitNeeded_NoQuota(cfg, st, bucket, t) ==
    LET w2 == IF bucket = "api" /\ cfg.interval > 0 /\ st.last_request_at # NoRequest
              THEN Max(0, st.last_request_at + cfg.interval - t) ELSE 0
    IN  Max(w2, st.backoff_until - t)

\* "calculate required wait" with the configuration cfg, on the bucket after
\* the eviction
WaitNeeded(cfg, st, bucket, t) ==
    LET w1 == IF Len(st.timestamps) >= cfg.limit
              THEN Max(0, Head(st.timestamps) + cfg.window - t) ELSE 0
        w2 == IF bucket = "api" /\ cfg.interval > 0 /\ st.last_request_at # NoRequest
              THEN Max(w1, st.last_request_at + cfg.interval - t) ELSE w1
    IN  Max(w2, st.backoff_until - t)

RECURSIVE WaitLoop(_, _, _, _)
\* wait_before_request called by the only thread at clock reading t, the
\* clock advancing by the sleeps alone: the bucket after the call and the
\* clock reading at the return
WaitLoop(cfg, st, bucket, t) ==
    LET ev == [st EXCEPT !.timestamps = Evicted(@, t, cfg.window)]
        wait == WaitNeeded(cfg, ev, bucket, t)
    IN  IF wait <= 0
        THEN [st |-> Recorded(ev, t), t |-> t]
        ELSE WaitLoop(cfg, ev, bucket, t + wait)

\* the status codes handle_response is called with
RespStatuses == {199, 200, 399, 400, 403, 418, 500}
Throttled(status) == status \in {403, 418}
Success(status) == 200 <= status /\ status < 400
\* the branch of handle_response a status takes
StatusClass(status) ==
    IF Throttled(status) THEN "throttled"
    ELSE IF Success(status) THEN "success" ELSE "ignored"


(***************************************************************************)
(* WeiboLoader._download and the files it works on.                        *)
(***************************************************************************)
\* the media jobs of one post, run concurrently by the thread pool
Jobs == {"j1", "j2"}

\* file names in the target directory: a stem and a suffix
Stems == {"x", "y"}
MediaExts == {"jpg", "mp4"}
DestPaths == [stem : Stems, ext : MediaExts]
Paths == [stem : Stems, ext : MediaExts \cup {"part"}]

\* dest.with_suffix(".part"): the suffix of dest is replaced
PartOf(dest) == [stem |-> dest.stem, ext |-> "part"]

\* inodes: one per file that exists before the calls, one per open
Inodes == 1..(2 * Cardinality(Jobs))

\* the body the request of job j retrieves, in chunks
Body(j) == [i \in 1..MaxChunks |-> <<j, i>>]

\* a chunk of zero bytes, as a write past the end of a file leaves behind
Hole == <<"0", 0>>

RECURSIVE Holes(_)
Holes(n) == IF n <= 0 THEN <<>> ELSE <<Hole>> \o Holes(n - 1)

\* f.write(chunk) at the file offset off
WriteAt(data, off, chunk) ==
    IF off >= Len(data)
    THEN data \o Holes(off - Len(data)) \o <<chunk>>
    ELSE [data EXCEPT ![off + 1] = chunk]

\* a path that names no file
NoFile == [exists |-> FALSE, data |-> <<>>]

\* the file a path names, in a directory d with inodes n
FileAt(d, n, p) ==
    IF d[p] = 0 THEN NoFile ELSE [exists |-> TRUE, data |-> n[d[p]]]

(***************************************************************************)
(* CheckpointManager.acquire_lock and the flock of the lock file.          *)
(***************************************************************************)
\* the processes (or threads) that call acquire_lock; each call opens the
\* lock file anew, so each holds an open file description of its own
Procs == {"p1", "p2"}

\* checkpoint keys as the loader passes them: hex digests (_ck_key)
Keys == {"k1", "k2"}

\* _paths(key)[1]: the lock file of a key
LockPath(key) == key \o ".lock"

LockFiles == {LockPath(k) : k \in Keys}

\* flock(f, LOCK_EX | LOCK_NB) by p succeeds on a file nobody holds
CanLock(held, p) == held = None

\* flock(f, LOCK_UN) as it would be if it released whoever holds the lock
Unlocked_Anyone(held, p) == None

\* flock(f, LOCK_UN) on p's file description: the holder of the lock after it
Unlocked(held, p) == IF held = p THEN None ELSE held

(***************************************************************************)
(* WeiboLoaderContext.request, _handle_response and _solve_captcha.        *)
(***************************************************************************)
\* status codes a response may carry
Statuses == {200, 302, 401, 403, 404, 418, 500, 503}

\* a response: its status, whether its url is captcha-like (_is_captcha_url)
\* and whether its Location header is
Responses == [status : Statuses, url : BOOLEAN, loc : BOOLEAN]

\* extract_captcha_url(resp) is not None
ExtractCaptchaUrl(r) == IF r.status = 418 THEN r.url ELSE r.url \/ r.loc

\* how handler.solve may end
SolveOutcomes == {"solved", "unsolved", "raised"}

\* the challenge test as it would be if it ignored allow_captcha
IsChallenge_IgnoresAllow(r, allow) == ExtractCaptchaUrl(r)

\* _handle_response takes the challenge detour
IsChallenge(r, allow) == allow /\ ExtractCaptchaUrl(r)

\* _solve_captcha: "AuthError" when captcha_mode names no handler, else
\* whether the handler solved it (an exception of the handler counts as not)
SolveCaptcha(mode, h) ==
    IF mode = "none" THEN "AuthError"
    ELSE IF h = "solved" THEN "solved" ELSE "failed"

\* the status branches as they would be if a 401 were retried like a 5xx
StatusOutcome_RetriesAuth(status, attempt, retries) ==
    IF status \in {403, 418}
    THEN IF attempt < retries THEN "retry" ELSE "RateLimitError"
    ELSE IF status = 401 \/ status >= 500
    THEN IF attempt < retries THEN "retry" ELSE "TargetError"
    ELSE IF status >= 400 THEN "TargetError"
    ELSE "return"

\* the status branches as they would be if the last attempt were retried too
StatusOutcome_NoLimit(status, attempt, retries) ==
    IF status \in {403, 418} THEN "retry"
    ELSE IF status = 401 THEN "AuthError"
    ELSE IF status >= 500
    THEN IF attempt < retries THEN "retry" ELSE "TargetError"
    ELSE IF status >= 400 THEN "TargetError"
    ELSE "return"

\* _handle_response past the challenge test: the response is returned, the
\* request retried (None), or an error raised
StatusOutcome(status, attempt, retries) ==
    IF status \in {403, 418}
    THEN IF attempt < retries THEN "retry" ELSE "RateLimitError"
    ELSE IF status = 401 THEN "AuthError"
    ELSE IF status >= 500
    THEN IF attempt < retries THEN "retry" ELSE "TargetError"
    ELSE IF status >= 400 THEN "TargetError"
    ELSE "return"

\* the status a transport failure is logged with
NoStatus == 0

\* a call the loop of request() makes: wait_before_request(bucket),
\* session.request, handle_response(bucket, status), _handle_response
Call(op, bucket, status) == [op |-> op, bucket |-> bucket, status |-> status]

\* one turn of the loop as it would be if a transport failure were reported
\* to the rate controller
AttemptCalls_HandlesFailure(bucket, status) ==
    <<Call("wait_before_request", bucket, NoStatus),
      Call("session.request", None, NoStatus),
      Call("handle_response", bucket, status),
      Call("_handle_response", None, status)>>

\* the calls of one turn of the loop; status is NoStatus when
\* session.request raised RequestException
AttemptCalls(bucket, status) ==
    IF status = NoStatus
    THEN <<Call("wait_before_request", bucket, NoStatus),
           Call("session.request", None, NoStatus)>>
    ELSE <<Call("wait_before_request", bucket, NoStatus),
           Call("session.request", None, NoStatus),
           Call("handle_response", bucket, status),
           Call("_handle_response", None, status)>>

(***************************************************************************)
(* download_target: the watermark of a target (latest_stamps) and the      *)
(* per-post timeout of the media collection.                               *)
(***************************************************************************)
\* resolved.key of the target, and _ck_key(resolved.key), the name of its
\* checkpoint
TargetKey == "u:1"
CkKey == "sha1(u:1)"

\* the keys the stamps map is read or written under
StampKeys == {TargetKey, CkKey}

\* the value of a key the stamps map does not hold (dict.get gives None; the
\* local newest before a post has set it)
NoStamp == 0

\* created_at of a post, as _cst gives it
CreatedTimes == 1..MaxCreated

\* how a media job stands when as_completed ends: with the outcome _download
\* returned (an exception of the job counts as FAILED), or not finished
JobResults == {"DOWNLOADED", "SKIPPED", "FAILED", "unfinished"}

\* the media jobs of a post: how many of them stand at each result
MediaResults ==
    {n \in [JobResults -> 0..MaxJobs] :
        n["DOWNLOADED"] + n["SKIPPED"] + n["FAILED"] + n["unfinished"] <= MaxJobs}

\* a post with no media job
NoJobs == [v \in JobResults |-> 0]

Count(results, v) == results[v]

\* as_completed raises FuturesTimeoutError: a job has not finished in time
TimedOut(results) == Count(results, "unfinished") > 0

\* what a post adds to the counter failed: the finished jobs that failed,
\* and in the timeout handler every job that is not done
FailedJobs(results) ==
    Count(results, "FAILED")
        + (IF TimedOut(results) THEN Count(results, "unfinished") ELSE 0)

\* every job of the post ended DOWNLOADED or SKIPPED
AllFetched(results) ==
    Count(results, "FAILED") = 0 /\ Count(results, "unfinished") = 0

\* the update of newest as it would be if it did not look at timed_out
NewestAfter_IgnoresTimeout(newest, created, timed_out) ==
    IF newest = NoStamp \/ created > newest THEN created ELSE newest

\* "if not timed_out and (newest is None or created > newest): newest = created"
NewestAfter(newest, created, timed_out) ==
    IF ~timed_out /\ (newest = NoStamp \/ created > newest)
    THEN created
    ELSE newest

\* the gate as it would be if it let a post as old as the cutoff pass
PastCutoff_Strict(created, cutoff) == cutoff # NoStamp /\ created < cutoff

\* "if cutoff and created <= cutoff: break"
PastCutoff(created, cutoff) == cutoff # NoStamp /\ created <= cutoff

\* "if newest and (cutoff is None or newest > cutoff)"
Advanced(newest, cutoff) ==
    newest # NoStamp /\ (cutoff = NoStamp \/ newest > cutoff)

\* "self._stamps[key] = newest" under that condition
StampsAfter(stamps, key, newest, cutoff) ==
    IF Advanced(newest, cutoff) THEN [stamps EXCEPT ![key] = newest] ELSE stamps

\* how _save_stamps may end: the file is replaced (or already holds the
\* payload), or the write raises and the file stays
StampSaveOutcomes == {"saved", "raised"}

\* the stamps file after _save_stamps
SaveStamps(file, stamps, outcome) == IF outcome = "saved" THEN stamps ELSE file

(***************************************************************************)
(* download_target: the stop conditions, the counters and the events.      *)
(***************************************************************************)
\* MediaOutcome
Outcomes == {"DOWNLOADED", "SKIPPED", "FAILED"}

\* a future as_completed has not yielded
Pending == "pending"

\* UIEvent, with the fields the loader fills in (0 and None elsewhere)
Event(kind, outcome, done, total, index, processed, cnt, ok) ==
    [kind |-> kind, outcome |-> outcome, media_done |-> done,
     media_total |-> total, post_index |-> index, posts_processed |-> processed,
     downloaded |-> cnt.downloaded, skipped |-> cnt.skipped,
     failed |-> cnt.failed, ok |-> ok]

\* the locals processed, downloaded, skipped, failed and ok as the loop
\* begins
NoCounts == [processed |-> 0, downloaded |-> 0, skipped |-> 0, failed |-> 0, ok |-> TRUE]

TargetStart == Event("TARGET_START", None, 0, 0, 0, 0, NoCounts, TRUE)
MediaDone(outcome, done, total, index) ==
    Event("MEDIA_DONE", outcome, done, total, index, 0, NoCounts, TRUE)
PostDone(processed) == Event("POST_DONE", None, 0, 0, 0, processed, NoCounts, TRUE)
Interrupted == Event("INTERRUPTED", None, 0, 0, 0, 0, NoCounts, TRUE)
TargetDone(cnt, ok) == Event("TARGET_DONE", None, 0, 0, 0, cnt.processed, cnt, ok)

\* the counters as they would be if a skipped job counted as downloaded
Counted_SkipAsDownload(cnt, outcome) ==
    IF outcome \in {"DOWNLOADED", "SKIPPED"}
    THEN [cnt EXCEPT !.downloaded = @ + 1]
    ELSE [cnt EXCEPT !.failed = @ + 1, !.ok = FALSE]

\* the counters after a job ended with the outcome
Counted(cnt, outcome) ==
    CASE outcome = "DOWNLOADED" -> [cnt EXCEPT !.downloaded = @ + 1]
      [] outcome = "SKIPPED" -> [cnt EXCEPT !.skipped = @ + 1]
      [] OTHER -> [cnt EXCEPT !.failed = @ + 1, !.ok = FALSE]

\* the count test as it would be if it let one post more pass
CountReached_OneMore(count, processed) == count # 0 /\ processed > count

\* "if self.count and processed >= self.count: break"
CountReached(count, processed) == count # 0 /\ processed >= count

\* "if self.fast_update and any(p.exists() and p.stat().st_size > 0 ...)":
\* hit says that a destination of the post exists with size > 0
FastUpdateStop(fast_update, hit) == fast_update /\ hit

\* the events of the KeyboardInterrupt branch in the opposite order
InterruptEvents_DoneFirst(cnt) == <<TargetDone(cnt, FALSE), Interrupted>>

\* the events of the KeyboardInterrupt branch
InterruptEvents(cnt) == <<Interrupted, TargetDone(cnt, FALSE)>>

\* _load_ck as it would be if it did not look at no_resume
LoadCk_IgnoresNoResume(file, no_resume) ==
    LET l == Load(file, CurHash)
    IN  IF l.res = "state" THEN l ELSE [res |-> "none"]

\* _load_ck: nothing with no_resume; an exception of load gives None
LoadCk(file, no_resume) ==
    LET l == Load(file, CurHash)
    IN  IF ~no_resume /\ l.res = "state" THEN l ELSE [res |-> "none"]

\* _create_iterator with the option no_resume
CreateIteratorOpt(file, no_resume) ==
    LET l == LoadCk(file, no_resume)
    IN  IF l.res = "state"
        THEN Thaw(NewIterator(CurHash), l.state)
        ELSE NewIterator(CurHash)

\* _clear_ck as it would be without its unlink
ClearCk_Keeps(file, no_resume) == file

\* _clear_ck
ClearCk(file, no_resume) == IF no_resume THEN file ELSE Absent

(***************************************************************************)
(* The options of a run and their hash.                                    *)
(***************************************************************************)
\* the values of the two patterns (None: --dirname-pattern not given)
DirnamePatterns == {None, "d1"}
FilenamePatterns == {"f1", "f2"}

\* the six hashed arguments of WeiboLoader(...); the constructor takes any
\* integer as count
OptionVectors ==
    [dirname_pattern : DirnamePatterns, filename_pattern : FilenamePatterns,
     no_videos : BOOLEAN, no_pictures : BOOLEAN,
     count : (-1)..MaxCount, fast_update : BOOLEAN]

\* _hash_options as it would be if the payload left fast_update out
HashOptions_NoFastUpdate(o) ==
    [dirname |-> o.dirname_pattern, filename |-> o.filename_pattern,
     no_videos |-> o.no_videos, no_pictures |-> o.no_pictures,
     count |-> Max(0, o.count)]

\* _hash_options on the attributes __init__ stores (self.count is
\* max(0, count)): the payload json.dumps serialises with sorted keys; the
\* first 16 hex digits of its sha1 are taken to differ whenever the payloads
\* differ
HashOptions(o) ==
    [dirname |-> o.dirname_pattern, filename |-> o.filename_pattern,
     no_videos |-> o.no_videos, no_pictures |-> o.no_pictures,
     count |-> Max(0, o.count), fast_update |-> o.fast_update]

\* _load_ck of a loader with the options o
LoadCkWith(file, o, no_resume) ==
    LET l == Load(file, HashOptions(o))
    IN  IF ~no_resume /\ l.res = "state" THEN l ELSE [res |-> "none"]

\* _create_iterator of a loader with the options o
CreateIteratorWith(file, o, no_resume) ==
    LET l == LoadCkWith(file, o, no_resume)
    IN  IF l.res = "state"
        THEN Thaw(NewIterator(HashOptions(o)), l.state)
        ELSE NewIterator(HashOptions(o))

(***************************************************************************)
(* State.                                                                  *)
(*                                                                         *)
(* The iterator specification: iterator I1 over the listing up, and        *)
(* iterator I2 thawed from a state frozen off I1 after frozenAt steps.     *)
(***************************************************************************)
VARIABLES up, it1, out1, stop1, frozenAt, it2, out2, stop2

iterVars == <<up, it1, out1, stop1, frozenAt, it2, out2, stop2>>

(***************************************************************************)
(* The checkpoint specification: the file <key>.json (ckDest), save's      *)
(* temporary file (ckTmp), the position of a save call (ckPc), its         *)
(* argument (ckArg), the file when it was called (ckPrev), how the last    *)
(* save ended (ckLast), and the result of the last load (loadRes), which   *)
(* loadedAfter says was made after the last save.                          *)
(***************************************************************************)
VARIABLES ckDest, ckTmp, ckPc, ckArg, ckPrev, ckLast, loadRes, loadedAfter

ckVars == <<ckDest, ckTmp, ckPc, ckArg, ckPrev, ckLast, loadRes, loadedAfter>>

(***************************************************************************)
(* The rate specification: the clock (now), the holder of the controller's *)
(* lock (lockOwner), request_interval (interval), the buckets (bstate),    *)
(* each caller's position in wait_before_request and its locals (cst),     *)
(* the calls made so far (calls), and as history every timestamp a bucket  *)
(* recorded (recorded).                                                    *)
(***************************************************************************)
VARIABLES now, lockOwner, interval, bstate, cst, calls, recorded

rateVars == <<now, lockOwner, interval, bstate, cst, calls, recorded>>

(***************************************************************************)
(* The download specification: the destination of each media job of one    *)
(* post (dlDest), the directory (dir: path to inode, 0 for no file), the   *)
(* inodes' contents (ino) and the next unused inode (nextIno), each        *)
(* worker's position in _download with its open file and offset (dl), and  *)
(* as history the destination as it was when the call began (before) and   *)
(* what the call returned with the files as they were then (ret).          *)
(***************************************************************************)
VARIABLES dlDest, dir, ino, nextIno, dl, before, ret

dlVars == <<dlDest, dir, ino, nextIno, dl, before, ret>>

(***************************************************************************)
(* The run specification: download_target on one target with resume        *)
(* enabled, run 1 and after an interrupt run 2 (rRun) over the same        *)
(* listing (rUp): the position in download_target (rPc), the target's      *)
(* iterator (rIt), the post being processed (rCur), the checkpoint file    *)
(* (rCk), and as history the posts each run yielded (rYield), those for    *)
(* which it emitted POST_DONE (rPosted), those of them that did not time   *)
(* out (rDone), and how the checkpoint write of the interrupt handler      *)
(* ended (rSave).                                                          *)
(***************************************************************************)
VARIABLES rUp, rRun, rPc, rIt, rCur, rCk, rYield, rPosted, rDone, rSave

runVars == <<rUp, rRun, rPc, rIt, rCur, rCk, rYield, rPosted, rDone, rSave>>

(***************************************************************************)
(* The lock specification: for each lock file the open file description    *)
(* that holds its flock (lkHeld: the process that opened it, None when     *)
(* unlocked), each process's position in acquire_lock with its key and the *)
(* way its call ended (lk), the calls made (lkCalls), and as history the   *)
(* attempts that failed with lock contention, each with its process, its   *)
(* key, and the holder and the holder's key at that moment (lkFailed).     *)
(***************************************************************************)
VARIABLES lkHeld, lk, lkCalls, lkFailed

lockVars == <<lkHeld, lk, lkCalls, lkFailed>>

(***************************************************************************)
(* The request specification: one call of request() with its arguments     *)
(* retries (qRetries) and allow_captcha (qAllow) and the context's         *)
(* captcha_mode naming a handler or not (qMode): the loop variable         *)
(* (qAttempt), how the call ended (qResult, None while it runs), and as    *)
(* history the HTTP requests issued (qSent), what each of them met (qLog), *)
(* the calls of _solve_captcha (qDetours) and the calls of the pause and   *)
(* resume hooks (qPause, qResume); the bucket argument (qBucket) and as     *)
(* history the calls the loop made, in order (qTrace).                     *)
(***************************************************************************)
VARIABLES qRetries, qAllow, qMode, qAttempt, qResult, qSent, qLog, qDetours,
          qPause, qResume, qBucket, qTrace

reqVars == <<qRetries, qAllow, qMode, qAttempt, qResult, qSent, qLog, qDetours,
             qPause, qResume, qBucket, qTrace>>

(***************************************************************************)
(* The watermark specification: download_target on one target with resume  *)
(* and latest_stamps enabled, run 1 and the run that follows it (wRun),    *)
(* each a process of its own, over the same listing (wUp) of posts with    *)
(* their creation times (wCreated): the position in download_target (wPc), *)
(* the iterator (wIt), the post being processed (wCur), the checkpoint     *)
(* file (wCk), self._stamps (wStamps), the stamps file (wFile), the locals *)
(* cutoff, newest and failed (wCutoff, wNewest, wFailed), and as history   *)
(* the stamps the run loaded (wLoaded), the media jobs of the post         *)
(* processed in the last step (wLast), and the posts each run processed,   *)
(* each with whether it timed out, whether all its jobs were fetched, and  *)
(* whether POST_DONE was emitted for it (wPosts), and the way run 1 ended  *)
(* (wEnd1, None until run 2 begins).                                       *)
(***************************************************************************)
VARIABLES wUp, wCreated, wRun, wPc, wIt, wCur, wCk, wStamps, wFile, wLoaded,
          wCutoff, wNewest, wFailed, wLast, wPosts, wEnd1

stampVars == <<wUp, wCreated, wRun, wPc, wIt, wCur, wCk, wStamps, wFile,
               wLoaded, wCutoff, wNewest, wFailed, wLast, wPosts, wEnd1>>

(***************************************************************************)
(* The event specification: one call of download_target, from              *)
(* TARGET_START to its return, with metadata_json set: the listing (eUp),  *)
(* the options count, fast_update and no_resume (eOpt), the checkpoint     *)
(* file (eCk), the position in download_target (ePc), the iterator (eIt),  *)
(* the post in hand (eCur), its futures, each pending or yielded with an   *)
(* outcome (eJobs), the locals media_done and the counters (eDone, eCnt),  *)
(* and as history the checkpoint file and the iterator the call began      *)
(* with (eCk0, eIt0), the events emitted (eLog), the posts whose metadata  *)
(* was written (eMeta), the posts whose jobs were dispatched, each with    *)
(* the number of its jobs (eDisp), why the loop ended and how many events  *)
(* had been emitted then (eStop, eStopLen), and how the call ended (eExit).*)
(***************************************************************************)
VARIABLES eUp, eOpt, eCk, ePc, eIt, eCur, eJobs, eDone, eCnt, eCk0, eIt0, eLog,
          eMeta, eDisp, eStop, eStopLen, eExit

evVars == <<eUp, eOpt, eCk, ePc, eIt, eCur, eJobs, eDone, eCnt, eCk0, eIt0,
            eLog, eMeta, eDisp, eStop, eStopLen, eExit>>

\* two runs on one target and one checkpoint directory: the options of the
\* first (oA) and of the second (oB, oNoResume), the listing, the checkpoint
\* file, the iterator the second run starts with, and where the runs are
VARIABLES oA, oB, oNoResume, oUp, oFile, oItB, oPc
optVars == <<oA, oB, oNoResume, oUp, oFile, oItB, oPc>>
\* download_targets: the index of the target the loop is at, the result map,
\* the targets whose download_target was called, how each call ended, whether
\* the stamps in memory differ from the file, where the function is and the
\* exception that left it
VARIABLES tIdx, tResults, tStarted, tExits, tDirty, tPc, tRaised
tgVars == <<tIdx, tResults, tStarted, tExits, tDirty, tPc, tRaised>>
\* the executor during one post: max_workers, the state of each submitted
\* job, the jobs that were not started when the interrupt came and those a
\* worker started after it, where the orchestrator is, whether the handler
\* saved checkpoint and stamps, the exception that leaves the call, and the
\* jobs the timeout handler counted as failed
VARIABLES pWorkers, pJobs, pQueued, pAfter, pPc, pFlushed, pRaised, pCounted
poolVars == <<pWorkers, pJobs, pQueued, pAfter, pPc, pFlushed, pRaised, pCounted>>
\* the controller used by one thread: its configuration, the bucket the
\* thread's requests go to, the clock, the buckets, and as history the base delays of the failures since a bucket's
\* last success, the status of its last response, and what the last call of
\* wait_before_request found and when it returned
VARIABLES sCfg, sB, sNow, sState, sBases, sLastStatus, sLastWait
seqVars == <<sCfg, sB, sNow, sState, sBases, sLastStatus, sLastWait>>
\* the metadata files of the target directory: <mid>.json of each post
\* (mDir), as history what each was before the run (mPrev), the post whose
\* file is being written (mCur), where _write_json is (mPc), and the posts
\* whose file was written (mDone)
VARIABLES mDir, mPrev, mCur, mPc, mDone
metaVars == <<mDir, mPrev, mCur, mPc, mDone>>
\* one iterator over its life: the listing (nUp), the iterator (nIt), a twin
\* given the same next and thaw calls and never frozen (nTwin), the results
\* of the last freeze calls with no next or thaw in between (nFrozen), a
\* frozen state kept for a later thaw (nSaved, empty or one state), the state
\* last thawed with no next since (nThawed, likewise), whether a fetch since the last thaw ended the
\* listing (nEnded), the last next() (nCall), the thaw calls so far (nThaws)
VARIABLES nUp, nIt, nTwin, nFrozen, nSaved, nThawed, nEnded, nCall, nThaws
lifeVars == <<nUp, nIt, nTwin, nFrozen, nSaved, nThawed, nEnded, nCall, nThaws>>
vars == <<iterVars, ckVars, rateVars, dlVars, runVars, lockVars, reqVars, stampVars, evVars, optVars, tgVars, poolVars, seqVars, metaVars, lifeVars>>

\* what the steps of each specification leave alone
IterFrame == UNCHANGED <<ckVars, rateVars, dlVars, runVars, lockVars, reqVars, stampVars, evVars, optVars, tgVars, poolVars, seqVars, metaVars, lifeVars>>
CkFrame == UNCHANGED <<iterVars, rateVars, dlVars, runVars, lockVars, reqVars, stampVars, evVars, optVars, tgVars, poolVars, seqVars, metaVars, lifeVars>>
RateFrame == UNCHANGED <<iterVars, ckVars, dlVars, runVars, lockVars, reqVars, stampVars, evVars, optVars, tgVars, poolVars, seqVars, metaVars, lifeVars>>
DlFrame == UNCHANGED <<iterVars, ckVars, rateVars, runVars, lockVars, reqVars, stampVars, evVars, optVars, tgVars, poolVars, seqVars, metaVars, lifeVars>>
RunFrame == UNCHANGED <<iterVars, ckVars, rateVars, dlVars, lockVars, reqVars, stampVars, evVars, optVars, tgVars, poolVars, seqVars, metaVars, lifeVars>>
LockFrame == UNCHANGED <<iterVars, ckVars, rateVars, dlVars, runVars, reqVars, stampVars, evVars, optVars, tgVars, poolVars, seqVars, metaVars, lifeVars>>
ReqFrame == UNCHANGED <<iterVars, ckVars, rateVars, dlVars, runVars, lockVars, stampVars, evVars, optVars, tgVars, poolVars, seqVars, metaVars, lifeVars>>
StampFrame == UNCHANGED <<iterVars, ckVars, rateVars, dlVars, runVars, lockVars, reqVars, evVars, optVars, tgVars, poolVars, seqVars, metaVars, lifeVars>>
EvFrame == UNCHANGED <<iterVars, ckVars, rateVars, dlVars, runVars, lockVars, reqVars, stampVars, optVars, tgVars, poolVars, seqVars, metaVars, lifeVars>>
OptFrame == UNCHANGED <<iterVars, ckVars, rateVars, dlVars, runVars, lockVars, reqVars, stampVars, evVars, tgVars, poolVars, seqVars, metaVars, lifeVars>>
TgFrame == UNCHANGED <<iterVars, ckVars, rateVars, dlVars, runVars, lockVars, reqVars, stampVars, evVars, optVars, poolVars, seqVars, metaVars, lifeVars>>
PoolFrame == UNCHANGED <<iterVars, ckVars, rateVars, dlVars, runVars, lockVars, reqVars, stampVars, evVars, optVars, tgVars, seqVars, metaVars, lifeVars>>
SeqFrame == UNCHANGED <<iterVars, ckVars, rateVars, dlVars, runVars, lockVars, reqVars, stampVars, evVars, optVars, tgVars, poolVars, metaVars, lifeVars>>
MetaFrame == UNCHANGED <<iterVars, ckVars, rateVars, dlVars, runVars, lockVars, reqVars, stampVars, evVars, optVars, tgVars, poolVars, seqVars, lifeVars>>
LifeFrame == UNCHANGED <<iterVars, ckVars, rateVars, dlVars, runVars, lockVars, reqVars, stampVars, evVars, optVars, tgVars, poolVars, seqVars, metaVars>>

\* the iterator specification's variables where another specification
\* leaves them
IterIdle ==
    /\ up = <<>>
    /\ it1 = NewIterator(CurHash)
    /\ out1 = <<>>
    /\ stop1 = FALSE
    /\ frozenAt = -1
    /\ it2 = NewIterator(CurHash)
    /\ out2 = <<>>
    /\ stop2 = FALSE

NoState == [page |-> 1, cursor |-> None, seen_mids |-> <<>>,
            options_hash |-> CurHash, timestamp |-> None]

CkIdle ==
    /\ ckDest = Absent
    /\ ckTmp = Absent
    /\ ckPc = "idle"
    /\ ckArg = NoState
    /\ ckPrev = Absent
    /\ ckLast = "none"
    /\ loadRes = [res |-> "none"]
    /\ loadedAfter = FALSE

IdleCaller == [pc |-> "idle", bucket |-> "api", t |-> 0, wait |-> 0, wake |-> 0]

RateIdle ==
    /\ now = 0
    /\ lockOwner = None
    /\ interval = 0
    /\ bstate = [b \in Buckets |-> NewBucket]
    /\ cst = [c \in Callers |-> IdleCaller]
    /\ calls = 0
    /\ recorded = [b \in Buckets |-> <<>>]

NewWorker == [pc |-> "start", fd |-> 0, off |-> 0, sent |-> 0]

NotReturned == [outcome |-> None, dest |-> NoFile, part |-> FALSE]

DlIdle ==
    /\ dlDest = [j \in Jobs |-> [stem |-> "x", ext |-> "jpg"]]
    /\ dir = [p \in Paths |-> 0]
    /\ ino = [i \in Inodes |-> <<>>]
    /\ nextIno = 1
    /\ dl = [j \in Jobs |-> NewWorker]
    /\ before = [j \in Jobs |-> NoFile]
    /\ ret = [j \in Jobs |-> NotReturned]

NoCall == [pc |-> "idle", key |-> None, exit |-> None]

LockIdle ==
    /\ lkHeld = [f \in LockFiles |-> None]
    /\ lk = [p \in Procs |-> NoCall]
    /\ lkCalls = 0
    /\ lkFailed = {}

Runs == {1, 2}

RunIdle ==
    /\ rUp = <<>>
    /\ rRun = 1
    /\ rPc = "loop"
    /\ rIt = NewIterator(CurHash)
    /\ rCur = None
    /\ rCk = Absent
    /\ rYield = [r \in Runs |-> <<>>]
    /\ rPosted = [r \in Runs |-> <<>>]
    /\ rDone = [r \in Runs |-> <<>>]
    /\ rSave = None

ReqIdle ==
    /\ qRetries = 0
    /\ qAllow = FALSE
    /\ qMode = "handler"
    /\ qAttempt = 0
    /\ qResult = None
    /\ qSent = 0
    /\ qLog = <<>>
    /\ qDetours = 0
    /\ qPause = 0
    /\ qResume = 0
    /\ qBucket = "api"
    /\ qTrace = <<>>

\* the stamps map with no key
NoStamps == [k \in StampKeys |-> NoStamp]

StampIdle ==
    /\ wUp = <<>>
    /\ wCreated = [m \in Mids |-> 1]
    /\ wRun = 1
    /\ wPc = "loop"
    /\ wIt = NewIterator(CurHash)
    /\ wCur = None
    /\ wCk = Absent
    /\ wStamps = NoStamps
    /\ wFile = NoStamps
    /\ wLoaded = NoStamps
    /\ wCutoff = NoStamp
    /\ wNewest = NoStamp
    /\ wFailed = 0
    /\ wLast = NoJobs
    /\ wPosts = [r \in Runs |-> <<>>]
    /\ wEnd1 = None

\* the call has not ended
NoExit == [via |-> None, raised |-> None]

EvIdle ==
    /\ eUp = <<>>
    /\ eOpt = [count |-> 0, fast_update |-> FALSE, no_resume |-> FALSE]
    /\ eCk = Absent
    /\ ePc = "loop"
    /\ eIt = NewIterator(CurHash)
    /\ eCur = None
    /\ eJobs = <<>>
    /\ eDone = 0
    /\ eCnt = NoCounts
    /\ eCk0 = Absent
    /\ eIt0 = NewIterator(CurHash)
    /\ eLog = <<>>
    /\ eMeta = {}
    /\ eDisp = <<>>
    /\ eStop = None
    /\ eStopLen = 0
    /\ eExit = NoExit

OptIdle ==
    /\ oA = None /\ oB = None /\ oNoResume = FALSE /\ oUp = <<>>
    /\ oFile = Absent /\ oItB = None /\ oPc = "idle"

TgIdle ==
    /\ tIdx = 0 /\ tResults = <<>> /\ tStarted = <<>> /\ tExits = <<>>
    /\ tDirty = FALSE /\ tPc = "idle" /\ tRaised = None

PoolIdle ==
    /\ pWorkers = 0 /\ pJobs = <<>> /\ pQueued = {} /\ pAfter = {}
    /\ pPc = "idle" /\ pFlushed = FALSE /\ pRaised = None /\ pCounted = {}

SeqIdle ==
    /\ sCfg = None /\ sB = None /\ sNow = 0 /\ sState = <<>> /\ sBases = <<>>
    /\ sLastStatus = <<>> /\ sLastWait = None

MetaIdle ==
    /\ mDir = <<>> /\ mPrev = <<>> /\ mCur = None /\ mPc = "idle" /\ mDone = {}

LifeIdle ==
    /\ nUp = <<>> /\ nIt = None /\ nTwin = None /\ nFrozen = <<>>
    /\ nSaved = <<>> /\ nThawed = <<>> /\ nEnded = FALSE /\ nCall = None
    /\ nThaws = 0

(***************************************************************************)
(* The iterator specification.                                             *)
(***************************************************************************)
IterInit ==
    /\ up \in Upstreams
    /\ it1 = NewIterator(CurHash)
    /\ out1 = <<>>
    /\ stop1 = FALSE
    /\ frozenAt = -1
    /\ it2 = NewIterator(CurHash)
    /\ out2 = <<>>
    /\ stop2 = FALSE
    /\ CkIdle
    /\ RateIdle
    /\ DlIdle
    /\ RunIdle
    /\ LockIdle
    /\ ReqIdle
    /\ StampIdle
    /\ EvIdle
    /\ OptIdle
    /\ TgIdle
    /\ PoolIdle
    /\ SeqIdle
    /\ MetaIdle
    /\ LifeIdle

\* next(I1)
I1Next ==
    /\ ~stop1
    /\ LET r == IterNext(it1, up)
       IN  /\ it1' = r.it
           /\ out1' = IF r.post = None THEN out1 ELSE Append(out1, r.post)
           /\ stop1' = (r.post = None)
    /\ UNCHANGED <<up, frozenAt, it2, out2, stop2>>
    /\ IterFrame

\* state = I1.freeze(); I2 = a fresh iterator; I2.thaw(state)
FreezeThaw ==
    /\ frozenAt = -1
    /\ \E order \in Orderings(it1.seen), ts \in Timestamps :
          it2' = Thaw(NewIterator(CurHash), Freeze(it1, order, ts))
    /\ frozenAt' = Len(out1)
    /\ UNCHANGED <<up, it1, out1, stop1, out2, stop2>>
    /\ IterFrame

\* next(I2), once I1 has run to its end
I2Next ==
    /\ frozenAt >= 0
    /\ stop1
    /\ ~stop2
    /\ LET r == IterNext(it2, up)
       IN  /\ it2' = r.it
           /\ out2' = IF r.post = None THEN out2 ELSE Append(out2, r.post)
           /\ stop2' = (r.post = None)
    /\ UNCHANGED <<up, it1, out1, stop1, frozenAt>>
    /\ IterFrame

IterNextRel == I1Next \/ FreezeThaw \/ I2Next

SpecIter == IterInit /\ [][IterNextRel]_vars

\* a listing as an upstream that pages properly serves it: no page is empty,
\* every page but the last carries a next cursor, and no post is listed twice
WellFormed(u) ==
    /\ \A p \in DOMAIN u :
          u[p].posts # <<>> /\ (u[p].cursor # None <=> p < Len(u))
    /\ \A p, q \in DOMAIN u : \A i \in DOMAIN u[p].posts, j \in DOMAIN u[q].posts :
          u[p].posts[i] = u[q].posts[j] => (p = q /\ i = j)

(***************************************************************************)
(* C1: a NodeIterator never yields two posts with the same mid, whatever   *)
(* pages fetch_page returns (a page listing a mid twice included).         *)
(***************************************************************************)
C1_NoMidYieldedTwice == NoDuplicates(out1)

(***************************************************************************)
(* C2: resume correctness. I1 advanced k steps and frozen, I2 thawed from  *)
(* that state over the same listing: what I2 yields is exactly what I1     *)
(* yields after its first k posts, in the same order. Stated for the       *)
(* well-formed listings alone.                                             *)
(***************************************************************************)
C2_ResumeYieldsRemainingSuffix ==
    (WellFormed(up) /\ frozenAt >= 0 /\ stop1 /\ stop2)
        => out2 = SubSeq(out1, frozenAt + 1, Len(out1))

(***************************************************************************)
(* The checkpoint specification: save as its steps, and load.              *)
(***************************************************************************)
Without(f, k) == [x \in DOMAIN f \ {k} |-> f[x]]

\* the fields of a checkpoint the current run wrote
SampleFields ==
    EncodeState([page |-> 2, cursor |-> "c", seen_mids |-> <<"m1">>,
                 options_hash |-> CurHash, timestamp |-> "t2"]).fields

\* what <key>.json may hold when the manager is created
InitialFiles ==
    {Absent, Garbage, NonObject, Truncated(Object(SampleFields)),
     Object(SampleFields),
     Object([SampleFields EXCEPT !.version = "0"]),
     Object([SampleFields EXCEPT !.options_hash = OtherHash]),
     Object(Without(SampleFields, "page")),
     Object(Without(SampleFields, "version")),
     Object(Without(SampleFields, "options_hash")),
     Object(Without(Without(Without(SampleFields, "cursor"), "seen_mids"), "timestamp"))}

CkInit ==
    /\ ckDest \in InitialFiles
    /\ ckTmp = Absent
    /\ ckPc = "idle"
    /\ ckArg = NoState
    /\ ckPrev = Absent
    /\ ckLast = "none"
    /\ loadRes = [res |-> "none"]
    /\ loadedAfter = FALSE
    /\ IterIdle
    /\ RateIdle
    /\ DlIdle
    /\ RunIdle
    /\ LockIdle
    /\ ReqIdle
    /\ StampIdle
    /\ EvIdle
    /\ OptIdle
    /\ TgIdle
    /\ PoolIdle
    /\ SeqIdle
    /\ MetaIdle
    /\ LifeIdle

\* save(key, st) is called: tempfile.mkstemp creates the temporary file, or
\* fails, and then the exception leaves save
SaveMkstemp ==
    /\ ckPc = "idle"
    /\ \E st \in CursorStates :
          /\ ckArg' = st
          /\ ckPrev' = ckDest
          /\ \/ ckTmp' = EmptyFile /\ ckPc' = "dump" /\ ckLast' = "running"
             \/ ckTmp' = ckTmp /\ ckPc' = "idle" /\ ckLast' = "raised"
    /\ loadRes' = [res |-> "none"]
    /\ loadedAfter' = FALSE
    /\ UNCHANGED ckDest
    /\ CkFrame

\* json.dump writes the first part of the text
SaveDumpSome ==
    /\ ckPc = "dump"
    /\ ckTmp' = Truncated(EncodeState(ckArg))
    /\ ckPc' = "dumping"
    /\ UNCHANGED <<ckDest, ckArg, ckPrev, ckLast, loadRes, loadedAfter>>
    /\ CkFrame

\* json.dump and f.flush write the rest
SaveDumpRest ==
    /\ ckPc = "dumping"
    /\ ckTmp' = EncodeState(ckArg)
    /\ ckPc' = "fsync"
    /\ UNCHANGED <<ckDest, ckArg, ckPrev, ckLast, loadRes, loadedAfter>>
    /\ CkFrame

\* os.fsync, and the file is closed
SaveFsync ==
    /\ ckPc = "fsync"
    /\ ckPc' = "rename"
    /\ UNCHANGED <<ckDest, ckTmp, ckArg, ckPrev, ckLast, loadRes, loadedAfter>>
    /\ CkFrame

\* os.rename(tmp, path); save returns
SaveRename ==
    /\ ckPc = "rename"
    /\ ckDest' = DestAfterRename(ckTmp, ckDest)
    /\ ckTmp' = Absent
    /\ ckPc' = "idle"
    /\ ckLast' = "ok"
    /\ UNCHANGED <<ckArg, ckPrev, loadRes, loadedAfter>>
    /\ CkFrame

\* the write, the flush, the fsync or the rename raises: the handler logs,
\* unlinks the temporary file, and save returns
SaveFail ==
    /\ ckPc \in {"dump", "dumping", "fsync", "rename"}
    /\ ckTmp' = TmpAfterFailure(ckTmp)
    /\ ckPc' = "idle"
    /\ ckLast' = "failed"
    /\ UNCHANGED <<ckDest, ckArg, ckPrev, loadRes, loadedAfter>>
    /\ CkFrame

\* load(key) by a manager whose options hash is CurHash
LoadCall ==
    /\ ckPc = "idle"
    /\ ~loadedAfter
    /\ loadRes' = Load(ckDest, CurHash)
    /\ loadedAfter' = TRUE
    /\ UNCHANGED <<ckDest, ckTmp, ckPc, ckArg, ckPrev, ckLast>>
    /\ CkFrame

CkNextRel ==
    \/ SaveMkstemp
    \/ SaveDumpSome
    \/ SaveDumpRest
    \/ SaveFsync
    \/ SaveRename
    \/ SaveFail
    \/ LoadCall

SpecCk == CkInit /\ [][CkNextRel]_vars

\* save has returned (not raised)
SaveReturned == ckPc = "idle" /\ ckLast \in {"ok", "failed"}

(***************************************************************************)
(* C8: save is atomic. At every point of a save call and after it, also    *)
(* one that failed at the write, the fsync or the rename, <key>.json holds *)
(* the complete content it had when save was called or the complete new    *)
(* content; and once save has returned no temporary file remains.          *)
(***************************************************************************)
C8_SaveAtomic ==
    /\ ckLast # "none" => ckDest \in {ckPrev, EncodeState(ckArg)}
    /\ SaveReturned => ckTmp = Absent

\* a save that failed has returned and the checkpoint of before is intact
C8_Witness ==
    /\ SaveReturned /\ ckLast = "failed"
    /\ ckPrev = Object(SampleFields)
    /\ ckDest = ckPrev
    /\ ckDest # EncodeState(ckArg)

C10_LoadNeverRaises == loadRes.res # "raise"

(***************************************************************************)
(* The rate specification: threads calling wait_before_request and         *)
(* handle_response on one controller, and the clock.                       *)
(***************************************************************************)
RateInit ==
    /\ now = 0
    /\ lockOwner = None
    /\ interval \in {0, RequestInterval}
    /\ bstate = [b \in Buckets |-> NewBucket]
    /\ cst = [c \in Callers |-> IdleCaller]
    /\ calls = 0
    /\ recorded = [b \in Buckets |-> <<>>]
    /\ IterIdle
    /\ CkIdle
    /\ DlIdle
    /\ RunIdle
    /\ LockIdle
    /\ ReqIdle
    /\ StampIdle
    /\ EvIdle
    /\ OptIdle
    /\ TgIdle
    /\ PoolIdle
    /\ SeqIdle
    /\ MetaIdle
    /\ LifeIdle

\* time.monotonic advances
Tick ==
    /\ now < MaxTime
    /\ now' = now + 1
    /\ UNCHANGED <<lockOwner, interval, bstate, cst, calls, recorded>>
    /\ RateFrame

\* a thread calls wait_before_request(b)
WaitCall(c) ==
    /\ cst[c].pc = "idle"
    /\ calls < MaxCalls
    /\ \E b \in Buckets :
          cst' = [cst EXCEPT ![c] = [@ EXCEPT !.pc = "enter", !.bucket = b]]
    /\ calls' = calls + 1
    /\ UNCHANGED <<now, lockOwner, interval, bstate, recorded>>
    /\ RateFrame

\* with self._lock: the lock is taken, the clock read, the old timestamps
\* evicted and the wait computed
WaitDecide(c) ==
    /\ cst[c].pc = "enter"
    /\ LockFree(lockOwner)
    /\ lockOwner' = c
    /\ LET b == cst[c].bucket
           st == [bstate[b] EXCEPT !.timestamps = EvictOld(@, now)]
       IN  /\ bstate' = [bstate EXCEPT ![b] = st]
           /\ cst' = [cst EXCEPT ![c] =
                        [@ EXCEPT !.pc = "decided", !.t = now,
                                  !.wait = RequiredWait(st, b, now, interval)]]
    /\ UNCHANGED <<now, interval, calls, recorded>>
    /\ RateFrame

\* wait <= 0: still under the lock the timestamp is recorded, and
\* wait_before_request returns
WaitRecord(c) ==
    /\ cst[c].pc = "decided"
    /\ cst[c].wait <= 0
    /\ LET b == cst[c].bucket
       IN  /\ bstate' = [bstate EXCEPT ![b] = Recorded(@, cst[c].t)]
           /\ recorded' = [recorded EXCEPT ![b] = Append(@, cst[c].t)]
    /\ lockOwner' = None
    /\ cst' = [cst EXCEPT ![c] = IdleCaller]
    /\ UNCHANGED <<now, interval, calls>>
    /\ RateFrame

\* wait > 0: the lock is released and the thread sleeps for wait
WaitSleep(c) ==
    /\ cst[c].pc = "decided"
    /\ cst[c].wait > 0
    /\ lockOwner' = None
    /\ cst' = [cst EXCEPT ![c] =
                 [IdleCaller EXCEPT !.pc = "sleeping", !.bucket = cst[c].bucket,
                                    !.wake = now + cst[c].wait]]
    /\ UNCHANGED <<now, interval, bstate, calls, recorded>>
    /\ RateFrame

\* the sleep is over, the loop starts again
WaitWake(c) ==
    /\ cst[c].pc = "sleeping"
    /\ now >= cst[c].wake
    /\ cst' = [cst EXCEPT ![c] = [@ EXCEPT !.pc = "enter", !.wake = 0]]
    /\ UNCHANGED <<now, lockOwner, interval, bstate, calls, recorded>>
    /\ RateFrame

\* handle_response as it would be if the buckets shared one state
HandleThrottled_AllBuckets(b) ==
    /\ LockFree(lockOwner)
    /\ calls < MaxCalls
    /\ bstate[b].failures < MaxFailures
    /\ LET f == bstate[b].failures + 1
           base == BackoffBase(f)
       IN  \E jitter \in Jitters(base) :
              bstate' = [o \in Buckets |->
                           [bstate[o] EXCEPT !.failures = f,
                                             !.backoff_until = now + base + jitter]]
    /\ calls' = calls + 1
    /\ UNCHANGED <<now, lockOwner, interval, cst, recorded>>
    /\ RateFrame

\* handle_response(b, status) with status 403 or 418, under the lock
HandleThrottled(b) ==
    /\ LockFree(lockOwner)
    /\ calls < MaxCalls
    /\ bstate[b].failures < MaxFailures
    /\ LET f == bstate[b].failures + 1
           base == BackoffBase(f)
       IN  \E jitter \in Jitters(base) :
              bstate' = [bstate EXCEPT ![b] =
                           [@ EXCEPT !.failures = f,
                                     !.backoff_until = now + base + jitter]]
    /\ calls' = calls + 1
    /\ UNCHANGED <<now, lockOwner, interval, cst, recorded>>
    /\ RateFrame

\* handle_response(b, status) with 200 <= status < 400, under the lock; with
\* no failure counted the reset changes nothing (backoff_until is 0 already),
\* and so does a call with any other status
HandleSuccess(b) ==
    /\ LockFree(lockOwner)
    /\ calls < MaxCalls
    /\ bstate[b].failures > 0
    /\ bstate' = [bstate EXCEPT ![b] = [@ EXCEPT !.failures = 0, !.backoff_until = 0]]
    /\ calls' = calls + 1
    /\ UNCHANGED <<now, lockOwner, interval, cst, recorded>>
    /\ RateFrame

RateNextRel ==
    \/ Tick
    \/ \E c \in Callers : WaitCall(c)
    \/ \E c \in Callers : WaitDecide(c)
    \/ \E c \in Callers : WaitRecord(c)
    \/ \E c \in Callers : WaitSleep(c)
    \/ \E c \in Callers : WaitWake(c)
    \/ \E b \in Buckets : HandleThrottled(b)
    \/ \E b \in Buckets : HandleSuccess(b)

SpecRate == RateInit /\ [][RateNextRel]_vars

\* the requests bucket b recorded in the window (t - W, t]
InWindow(b, t) ==
    {i \in DOMAIN recorded[b] : recorded[b][i] > t - Window /\ recorded[b][i] <= t}

(***************************************************************************)
(* C5: rate conformance under concurrency. For every bucket and every time *)
(* t, the timestamps the bucket recorded in the window (t - W, t] number   *)
(* at most L, whatever the interleaving of the callers.                    *)
(***************************************************************************)
C5_RateConformance ==
    \A b \in Buckets : \A t \in 0..(MaxTime + Window) :
        Cardinality(InWindow(b, t)) <= Limit

\* a bucket's window is full, and a caller that found it so sleeps while the
\* other caller contends for the same bucket
C5_Witness ==
    \E b \in Buckets : \E c, d \in Callers :
        /\ c # d
        /\ Cardinality(InWindow(b, now)) = Limit
        /\ cst[c].pc = "sleeping" /\ cst[c].bucket = b
        /\ cst[d].pc = "enter" /\ cst[d].bucket = b

\* the request bucket b records in this step, if it records one
RecordsAt(b, t) == recorded'[b] = Append(recorded[b], t)

(***************************************************************************)
(* C6: wait_before_request never returns early. Every step that records a  *)
(* request at time t in a bucket finds t at or after the bucket's          *)
(* backoff_until, and in the api bucket with a positive request_interval   *)
(* at or after the previous api request plus the interval.                 *)
(***************************************************************************)
C6_NeverReturnsEarly ==
    [][\A b \in Buckets : \A t \in 0..MaxTime :
          RecordsAt(b, t) =>
              /\ t >= bstate[b].backoff_until
              /\ (b = "api" /\ interval > 0 /\ bstate[b].last_request_at # NoRequest)
                    => t >= bstate[b].last_request_at + interval]_vars

\* the api bucket recorded a second request once its backoff and the interval
\* had passed, and the media bucket recorded two requests less than the
\* interval apart
C6_Witness ==
    /\ interval > 0
    /\ Len(recorded["api"]) = 2
    /\ bstate["api"].backoff_until > 0
    /\ recorded["api"][2] >= bstate["api"].backoff_until
    /\ recorded["api"][2] >= recorded["api"][1] + interval
    /\ Len(recorded["media"]) = 2
    /\ recorded["media"][2] < recorded["media"][1] + interval

(***************************************************************************)
(* The download specification: the media jobs of one post, submitted       *)
(* together to the thread pool, each running _download on its own          *)
(* destination. _media_jobs gives the jobs distinct destinations. A        *)
(* destination may exist before the call, empty or not.                    *)
(***************************************************************************)
PriorContents == {<<>>, <<<<"old", 1>>>>}

DlInit ==
    /\ dlDest \in {f \in [Jobs -> DestPaths] : \A j, k \in Jobs : j # k => f[j] # f[k]}
    /\ \E prior \in [Jobs -> [exists : BOOLEAN, data : PriorContents]] :
          /\ \A j \in Jobs : ~prior[j].exists => prior[j].data = <<>>
          /\ dir = [p \in Paths |->
                      IF \E j \in Jobs : dlDest[j] = p /\ prior[j].exists
                      THEN IF dlDest["j1"] = p THEN 1 ELSE 2
                      ELSE 0]
          /\ ino = [i \in Inodes |->
                      IF i = 1 THEN prior["j1"].data
                      ELSE IF i = 2 THEN prior["j2"].data ELSE <<>>]
    /\ nextIno = Cardinality(Jobs) + 1
    /\ dl = [j \in Jobs |-> NewWorker]
    /\ before = [j \in Jobs |-> NoFile]
    /\ ret = [j \in Jobs |-> NotReturned]
    /\ IterIdle
    /\ CkIdle
    /\ RateIdle
    /\ RunIdle
    /\ LockIdle
    /\ ReqIdle
    /\ StampIdle
    /\ EvIdle
    /\ OptIdle
    /\ TgIdle
    /\ PoolIdle
    /\ SeqIdle
    /\ MetaIdle
    /\ LifeIdle

\* _download returns: the outcome, and the destination and the temporary
\* file as they are at that moment
Returned(outcome, d, n, j) ==
    [outcome |-> outcome,
     dest |-> FileAt(d, n, dlDest[j]),
     part |-> d[PartOf(dlDest[j])] # 0]

\* the call begins: a destination that exists and is not empty is skipped
DlCheck(j) ==
    /\ dl[j].pc = "start"
    /\ before' = [before EXCEPT ![j] = FileAt(dir, ino, dlDest[j])]
    /\ IF dir[dlDest[j]] # 0 /\ Len(ino[dir[dlDest[j]]]) > 0
       THEN /\ dl' = [dl EXCEPT ![j].pc = "done"]
            /\ ret' = [ret EXCEPT ![j] = Returned("SKIPPED", dir, ino, j)]
       ELSE /\ dl' = [dl EXCEPT ![j].pc = "request"]
            /\ UNCHANGED ret
    /\ UNCHANGED <<dlDest, dir, ino, nextIno>>
    /\ DlFrame

\* self.context.request(...) returns a response
DlRequest(j) ==
    /\ dl[j].pc = "request"
    /\ dl' = [dl EXCEPT ![j].pc = "open"]
    /\ UNCHANGED <<dlDest, dir, ino, nextIno, before, ret>>
    /\ DlFrame

\* open(part, "wb"): an existing file is truncated, a missing one created
DlOpen(j) ==
    /\ dl[j].pc = "open"
    /\ LET part == PartOf(dlDest[j])
       IN  IF dir[part] # 0
           THEN /\ ino' = [ino EXCEPT ![dir[part]] = <<>>]
                /\ dl' = [dl EXCEPT ![j] = [@ EXCEPT !.pc = "write", !.fd = dir[part], !.off = 0]]
                /\ UNCHANGED <<dir, nextIno>>
           ELSE /\ dir' = [dir EXCEPT ![part] = nextIno]
                /\ ino' = [ino EXCEPT ![nextIno] = <<>>]
                /\ nextIno' = nextIno + 1
                /\ dl' = [dl EXCEPT ![j] = [@ EXCEPT !.pc = "write", !.fd = nextIno, !.off = 0]]
    /\ UNCHANGED <<dlDest, before, ret>>
    /\ DlFrame

\* f.write(chunk) for the next chunk of the body
DlWrite(j) ==
    /\ dl[j].pc = "write"
    /\ dl[j].sent < MaxChunks
    /\ ino' = [ino EXCEPT ![dl[j].fd] = WriteAt(@, dl[j].off, Body(j)[dl[j].sent + 1])]
    /\ dl' = [dl EXCEPT ![j] = [@ EXCEPT !.off = @ + 1, !.sent = @ + 1]]
    /\ UNCHANGED <<dlDest, dir, nextIno, before, ret>>
    /\ DlFrame

\* the body is exhausted: f.flush(), os.fsync(), and the file is closed
DlFsync(j) ==
    /\ dl[j].pc = "write"
    /\ dl[j].sent = MaxChunks
    /\ dl' = [dl EXCEPT ![j] = [@ EXCEPT !.pc = "replace", !.fd = 0, !.off = 0]]
    /\ UNCHANGED <<dlDest, dir, ino, nextIno, before, ret>>
    /\ DlFrame

\* os.replace(part, dest), which raises when part names no file
DlReplace(j) ==
    /\ dl[j].pc = "replace"
    /\ LET part == PartOf(dlDest[j])
       IN  IF dir[part] # 0
           THEN LET d == [dir EXCEPT ![dlDest[j]] = dir[part], ![part] = 0]
                IN  /\ dir' = d
                    /\ dl' = [dl EXCEPT ![j].pc = "done"]
                    /\ ret' = [ret EXCEPT ![j] = Returned("DOWNLOADED", d, ino, j)]
           ELSE /\ dl' = [dl EXCEPT ![j].pc = "except"]
                /\ UNCHANGED <<dir, ret>>
    /\ UNCHANGED <<dlDest, ino, nextIno, before>>
    /\ DlFrame

\* the request, the open, a read of the body, a write or the fsync raises
DlRaise(j) ==
    /\ dl[j].pc \in {"request", "open", "write"}
    /\ dl' = [dl EXCEPT ![j] = [@ EXCEPT !.pc = "except", !.fd = 0, !.off = 0]]
    /\ UNCHANGED <<dlDest, dir, ino, nextIno, before, ret>>
    /\ DlFrame

\* except Exception: part.unlink(missing_ok=True); return FAILED
DlExcept(j) ==
    /\ dl[j].pc = "except"
    /\ LET d == [dir EXCEPT ![PartOf(dlDest[j])] = 0]
       IN  /\ dir' = d
           /\ ret' = [ret EXCEPT ![j] = Returned("FAILED", d, ino, j)]
    /\ dl' = [dl EXCEPT ![j].pc = "done"]
    /\ UNCHANGED <<dlDest, ino, nextIno, before>>
    /\ DlFrame

DlNextRel ==
    \/ \E j \in Jobs : DlCheck(j)
    \/ \E j \in Jobs : DlRequest(j)
    \/ \E j \in Jobs : DlOpen(j)
    \/ \E j \in Jobs : DlWrite(j)
    \/ \E j \in Jobs : DlFsync(j)
    \/ \E j \in Jobs : DlReplace(j)
    \/ \E j \in Jobs : DlRaise(j)
    \/ \E j \in Jobs : DlExcept(j)

SpecDl == DlInit /\ [][DlNextRel]_vars

(***************************************************************************)
(* C7: _download never leaves a partial destination or a temporary file.   *)
(* When it returns DOWNLOADED the destination holds exactly the bytes its  *)
(* request retrieved and no .part file remains; when it returns FAILED the *)
(* .part file is gone and the destination is as it was before the call.    *)
(***************************************************************************)
C7_NoPartialNoResidue ==
    \A j \in Jobs :
        /\ ret[j].outcome = "DOWNLOADED" =>
              /\ ret[j].dest = [exists |-> TRUE, data |-> Body(j)]
              /\ ~ret[j].part
        /\ ret[j].outcome = "FAILED" =>
              /\ ret[j].dest = before[j]
              /\ ~ret[j].part

(***************************************************************************)
(* The run specification. Run 1 starts with no checkpoint on disk; neither *)
(* count, fast_update nor latest_stamps is set. A KeyboardInterrupt may    *)
(* arrive in run 1 between two posts or while a post is processed; run 2   *)
(* is started after it with the same options and runs to its end.          *)
(***************************************************************************)
\* how _save_ck may end: the file is written; save swallows a failed write;
\* or an exception leaves _save_ck (the lock is held elsewhere, mkstemp fails)
SaveOutcomes == {"saved", "swallowed", "raised"}

\* the checkpoint file after _save_ck(key, it)
SaveCk(file, it, order, ts, outcome) ==
    IF outcome = "saved"
    THEN DestAfterRename(EncodeState(Freeze(it, order, ts)), file)
    ELSE file

\* _create_iterator: a new iterator, thawed if _load_ck returns a state
CreateIterator(file) ==
    LET l == Load(file, CurHash)
    IN  IF l.res = "state"
        THEN Thaw(NewIterator(CurHash), l.state)
        ELSE NewIterator(CurHash)

\* the listings of the target
RunListings ==
    SeqsUpTo([posts : SeqsUpTo(Mids, RunMaxPageLen), cursor : Cursors], RunMaxPages)

RunInit ==
    /\ rUp \in RunListings
    /\ rRun = 1
    /\ rPc = "loop"
    /\ rIt = CreateIterator(Absent)
    /\ rCur = None
    /\ rCk = Absent
    /\ rYield = [r \in Runs |-> <<>>]
    /\ rPosted = [r \in Runs |-> <<>>]
    /\ rDone = [r \in Runs |-> <<>>]
    /\ rSave = None
    /\ IterIdle
    /\ CkIdle
    /\ RateIdle
    /\ DlIdle
    /\ LockIdle
    /\ ReqIdle
    /\ StampIdle
    /\ EvIdle
    /\ OptIdle
    /\ TgIdle
    /\ PoolIdle
    /\ SeqIdle
    /\ MetaIdle
    /\ LifeIdle

\* "for post in iterator": the next post is yielded, or the iterator is
\* exhausted and the target ends normally (_clear_ck)
RunNext ==
    /\ rPc = "loop"
    /\ LET r == IterNext(rIt, rUp)
       IN  /\ rIt' = r.it
           /\ IF r.post = None
              THEN /\ rPc' = "done"
                   /\ rCk' = Absent
                   /\ UNCHANGED <<rCur, rYield>>
              ELSE /\ rPc' = "post"
                   /\ rCur' = r.post
                   /\ rYield' = [rYield EXCEPT ![rRun] = Append(@, r.post)]
                   /\ UNCHANGED rCk
    /\ UNCHANGED <<rUp, rRun, rPosted, rDone, rSave>>
    /\ RunFrame

\* the post's media are collected within the timeout: _save_ck, POST_DONE
RunPostDone ==
    /\ rPc = "post"
    /\ \E outcome \in SaveOutcomes, order \in Orderings(rIt.seen), ts \in Timestamps :
          /\ rCk' = SaveCk(rCk, rIt, order, ts, outcome)
          /\ IF outcome = "raised"
             THEN /\ rPc' = "error"
                  /\ UNCHANGED <<rPosted, rDone>>
             ELSE /\ rPc' = "loop"
                  /\ rPosted' = [rPosted EXCEPT ![rRun] = Append(@, rCur)]
                  /\ rDone' = [rDone EXCEPT ![rRun] = Append(@, rCur)]
    /\ UNCHANGED <<rUp, rRun, rIt, rCur, rYield, rSave>>
    /\ RunFrame

\* the post times out: no checkpoint is saved, POST_DONE
RunPostTimedOut ==
    /\ rPc = "post"
    /\ rPc' = "loop"
    /\ rPosted' = [rPosted EXCEPT ![rRun] = Append(@, rCur)]
    /\ UNCHANGED <<rUp, rRun, rIt, rCur, rCk, rYield, rDone, rSave>>
    /\ RunFrame

\* except Exception: _handle_error saves the checkpoint; the target has failed
RunHandleError ==
    /\ rPc = "error"
    /\ \E outcome \in SaveOutcomes, order \in Orderings(rIt.seen), ts \in Timestamps :
          rCk' = SaveCk(rCk, rIt, order, ts, outcome)
    /\ rPc' = "failed"
    /\ UNCHANGED <<rUp, rRun, rIt, rCur, rYield, rPosted, rDone, rSave>>
    /\ RunFrame

\* except KeyboardInterrupt: _handle_interrupt saves the checkpoint and the
\* interrupt is re-raised, unless _save_ck raises an exception of its own
RunInterrupt ==
    /\ rRun = 1
    /\ rPc \in {"loop", "post"}
    /\ \E outcome \in SaveOutcomes, order \in Orderings(rIt.seen), ts \in Timestamps :
          /\ rCk' = SaveCk(rCk, rIt, order, ts, outcome)
          /\ rSave' = outcome
          /\ rPc' = IF outcome = "raised" THEN "failed" ELSE "interrupted"
    /\ UNCHANGED <<rUp, rRun, rIt, rCur, rYield, rPosted, rDone>>
    /\ RunFrame

\* the following run: download_target creates its iterator from the
\* checkpoint on disk
RunResume ==
    /\ rRun = 1
    /\ rPc = "interrupted"
    /\ rRun' = 2
    /\ rPc' = "loop"
    /\ rIt' = CreateIterator(rCk)
    /\ rCur' = None
    /\ UNCHANGED <<rUp, rCk, rYield, rPosted, rDone, rSave>>
    /\ RunFrame

RunNextRel ==
    \/ RunNext
    \/ RunPostDone
    \/ RunPostTimedOut
    \/ RunHandleError
    \/ RunInterrupt
    \/ RunResume

SpecRun == RunInit /\ [][RunNextRel]_vars

\* the posts of a listing
Listed(u) == UNION {Range(u[p].posts) : p \in DOMAIN u}

(***************************************************************************)
(* C3: no post is lost across an interrupt and a resume. When run 2,       *)
(* started from the checkpoint run 1 saved at its interrupt, has ended,    *)
(* every post of the unchanged listing that had not reached POST_DONE in   *)
(* run 1 has been yielded and processed by run 2.                          *)
(***************************************************************************)
C3_NoPostLost ==
    (WellFormed(rUp) /\ rRun = 2 /\ rPc = "done" /\ rSave = "saved") =>
        \A m \in Listed(rUp) :
            m \notin Range(rPosted[1]) =>
                m \in Range(rYield[2]) /\ m \in Range(rPosted[2])

\* download_target has re-raised the KeyboardInterrupt of run 1
Reraised == rSave \in {"saved", "swallowed"}

\* what C4 promises once the interrupt is re-raised: at that moment the
\* checkpoint file holds every completed post in seen_mids, and the
\* following run yields none of them
CompletedKept ==
    /\ (rRun = 1 /\ rPc = "interrupted") =>
          /\ Load(rCk, CurHash).res = "state"
          /\ Range(rDone[1]) \subseteq Range(Load(rCk, CurHash).state.seen_mids)
    /\ Range(rDone[1]) \cap Range(rYield[2]) = {}

LockInit ==
    /\ lkHeld = [f \in LockFiles |-> None]
    /\ lk = [p \in Procs |-> NoCall]
    /\ lkCalls = 0
    /\ lkFailed = {}
    /\ IterIdle
    /\ CkIdle
    /\ RateIdle
    /\ DlIdle
    /\ RunIdle
    /\ ReqIdle
    /\ StampIdle
    /\ EvIdle
    /\ OptIdle
    /\ TgIdle
    /\ PoolIdle
    /\ SeqIdle
    /\ MetaIdle
    /\ LifeIdle

\* acquire_lock(key) is entered: lock_path.touch(), open(lock_path, "w")
LockOpen(p) ==
    /\ lk[p].pc \in {"idle", "closed"}
    /\ lkCalls < MaxAcquires
    /\ \E k \in Keys : lk' = [lk EXCEPT ![p] = [pc |-> "opened", key |-> k, exit |-> None]]
    /\ lkCalls' = lkCalls + 1
    /\ UNCHANGED <<lkHeld, lkFailed>>
    /\ LockFrame

\* fcntl.flock(f, LOCK_EX | LOCK_NB): the lock is taken and the body entered
\* (yield), or BlockingIOError is raised at once and turned into RuntimeError
LockTry(p) ==
    /\ lk[p].pc = "opened"
    /\ LET f == LockPath(lk[p].key)
       IN  IF CanLock(lkHeld[f], p)
           THEN /\ lkHeld' = [lkHeld EXCEPT ![f] = p]
                /\ lk' = [lk EXCEPT ![p].pc = "body"]
                /\ UNCHANGED lkFailed
           ELSE /\ lk' = [lk EXCEPT ![p] = [@ EXCEPT !.pc = "finally", !.exit = "contention"]]
                /\ lkFailed' = lkFailed \cup
                      {[p |-> p, key |-> lk[p].key, holder |-> lkHeld[f],
                        hkey |-> lk[lkHeld[f]].key, hpc |-> lk[lkHeld[f]].pc]}
                /\ UNCHANGED lkHeld
    /\ UNCHANGED lkCalls
    /\ LockFrame

\* the body of the with statement ends, normally or by an exception
LockBodyExit(p) ==
    /\ lk[p].pc = "body"
    /\ \E how \in {"normal", "exception"} :
          lk' = [lk EXCEPT ![p] = [@ EXCEPT !.pc = "finally", !.exit = how]]
    /\ UNCHANGED <<lkHeld, lkCalls, lkFailed>>
    /\ LockFrame

\* finally: fcntl.flock(f, LOCK_UN), and the file is closed
LockFinally(p) ==
    /\ lk[p].pc = "finally"
    /\ LET f == LockPath(lk[p].key)
       IN  lkHeld' = [lkHeld EXCEPT ![f] = Unlocked(@, p)]
    /\ lk' = [lk EXCEPT ![p].pc = "closed"]
    /\ UNCHANGED <<lkCalls, lkFailed>>
    /\ LockFrame

LockNextRel ==
    \/ \E p \in Procs : LockOpen(p)
    \/ \E p \in Procs : LockTry(p)
    \/ \E p \in Procs : LockBodyExit(p)
    \/ \E p \in Procs : LockFinally(p)

SpecLock == LockInit /\ [][LockNextRel]_vars

\* p is inside the scope of acquire_lock(k)
InScope(p, k) == lk[p].pc = "body" /\ lk[p].key = k

(***************************************************************************)
(* C11: acquire_lock gives mutual exclusion without blocking. At most one  *)
(* process is inside the scope of a key; whoever is inside holds the lock, *)
(* whatever attempts others made meanwhile; an attempt fails with lock     *)
(* contention only while another process is inside the scope of the same   *)
(* key and has not yet released it; and once a process has left the scope, by   *)
(* whatever exit, it holds no lock.                                        *)
(***************************************************************************)
C11_MutualExclusion ==
    /\ \A k \in Keys : \A p, q \in Procs : (InScope(p, k) /\ InScope(q, k)) => p = q
    /\ \A k \in Keys : \A p \in Procs : InScope(p, k) => lkHeld[LockPath(k)] = p
    /\ \A r \in lkFailed :
          r.holder \in Procs \ {r.p} /\ r.hkey = r.key /\ r.hpc \in {"body", "finally"}
    /\ \A f \in LockFiles : \A p \in Procs :
          lkHeld[f] = p => lk[p].pc \in {"body", "finally"} /\ LockPath(lk[p].key) = f

\* p1 is inside the scope of k1 after p2 failed on k1 with lock contention,
\* left, and entered the scope of k2
C11_Witness ==
    /\ InScope("p1", "k1")
    /\ InScope("p2", "k2")
    /\ \E r \in lkFailed : r.p = "p2" /\ r.key = "k1" /\ r.holder = "p1"

(***************************************************************************)
(* The request specification: one call of request(); each step is one turn *)
(* of its loop "for attempt in range(retries + 1)".                        *)
(***************************************************************************)
ReqInit ==
    /\ qRetries \in 0..MaxRetries
    /\ qAllow \in BOOLEAN
    /\ qMode \in {"handler", "none"}
    /\ qAttempt = 0
    /\ qResult = None
    /\ qSent = 0
    /\ qLog = <<>>
    /\ qDetours = 0
    /\ qPause = 0
    /\ qResume = 0
    /\ qBucket \in Buckets
    /\ qTrace = <<>>
    /\ IterIdle
    /\ CkIdle
    /\ RateIdle
    /\ DlIdle
    /\ RunIdle
    /\ LockIdle
    /\ StampIdle
    /\ EvIdle
    /\ OptIdle
    /\ TgIdle
    /\ PoolIdle
    /\ SeqIdle
    /\ MetaIdle
    /\ LifeIdle

\* the loop goes on to its next turn, or is over: raise TargetError (line 136)
Continue(attempt, retries) ==
    IF attempt + 1 > retries THEN "TargetError" ELSE None

\* session.request raises RequestException
ReqTransportFail ==
    /\ qResult = None
    /\ qAttempt <= qRetries
    /\ qSent' = qSent + 1
    /\ qLog' = Append(qLog, [status |-> NoStatus, sig |-> FALSE, solve |-> None])
    /\ qTrace' = qTrace \o AttemptCalls(qBucket, NoStatus)
    /\ qResult' = IF qAttempt >= qRetries THEN "TargetError" ELSE None
    /\ qAttempt' = qAttempt + 1
    /\ UNCHANGED <<qRetries, qAllow, qMode, qDetours, qPause, qResume, qBucket>>
    /\ ReqFrame

\* a response that _handle_response judges by its status
ReqStatus ==
    /\ qResult = None
    /\ qAttempt <= qRetries
    /\ \E r \in Responses :
          /\ ~IsChallenge(r, qAllow)
          /\ qTrace' = qTrace \o AttemptCalls(qBucket, r.status)
          /\ qLog' = Append(qLog, [status |-> r.status, sig |-> ExtractCaptchaUrl(r),
                                   solve |-> None])
          /\ LET o == StatusOutcome(r.status, qAttempt, qRetries)
             IN  qResult' = IF o = "retry" THEN Continue(qAttempt, qRetries) ELSE o
    /\ qSent' = qSent + 1
    /\ qAttempt' = qAttempt + 1
    /\ UNCHANGED <<qRetries, qAllow, qMode, qDetours, qPause, qResume, qBucket>>
    /\ ReqFrame

\* a response that sends _handle_response into the challenge detour
ReqChallenge ==
    /\ qResult = None
    /\ qAttempt <= qRetries
    /\ \E r \in Responses, h \in SolveOutcomes :
          /\ IsChallenge(r, qAllow)
          /\ qTrace' = qTrace \o AttemptCalls(qBucket, r.status)
          /\ LET o == SolveCaptcha(qMode, h)
             IN  /\ qLog' = Append(qLog,
                        [status |-> r.status, sig |-> TRUE,
                         solve |-> IF qMode = "none" THEN "unavailable" ELSE h])
                 /\ qResult' = IF o = "solved" THEN Continue(qAttempt, qRetries)
                               ELSE "AuthError"
    /\ qSent' = qSent + 1
    /\ qDetours' = qDetours + 1
    /\ qAttempt' = qAttempt + 1
    /\ UNCHANGED <<qRetries, qAllow, qMode, qPause, qResume, qBucket>>
    /\ ReqFrame

ReqNextRel == ReqTransportFail \/ ReqStatus \/ ReqChallenge

SpecReq == ReqInit /\ [][ReqNextRel]_vars

\* the call has ended
Ended == qResult # None

\* request i was not taken into the challenge detour
NonChallenge(i) == qLog[i].solve = None

RateLimited(i) == qLog[i].status \in {403, 418}

ServerOrTransport(i) == qLog[i].status >= 500 \/ qLog[i].status = NoStatus

Successful(i) == qLog[i].status # NoStatus /\ qLog[i].status < 400

\* request i is the last one and the call ended with result
EndsWith(i, result) == i = Len(qLog) /\ qResult = result

(***************************************************************************)
(* C12 as stated: never more than retries+1 requests are issued; when      *)
(* every attempt returned a non-challenge 403 or 418 the call ends after   *)
(* exactly retries+1 requests with RateLimitError; when every attempt      *)
(* returned a status >= 500 or failed at transport level it ends after     *)
(* exactly retries+1 requests with TargetError; a successful response is   *)
(* returned at once.                                                       *)
(***************************************************************************)
C12_RetriedWhileAttemptsRemain ==
    /\ qSent <= qRetries + 1
    /\ (Ended /\ \A i \in DOMAIN qLog : RateLimited(i) /\ NonChallenge(i)) =>
          qSent = qRetries + 1 /\ qResult = "RateLimitError"
    /\ (Ended /\ \A i \in DOMAIN qLog : ServerOrTransport(i)) =>
          qSent = qRetries + 1 /\ qResult = "TargetError"
    /\ \A i \in DOMAIN qLog : Successful(i) => EndsWith(i, "return")

(***************************************************************************)
(* C12, amended: the same for responses that are not taken into the        *)
(* challenge detour (allow_captcha false, or no challenge signature).      *)
(***************************************************************************)
C12_RetriedWhileAttemptsRemainNoChallenge ==
    /\ qSent <= qRetries + 1
    /\ (Ended /\ \A i \in DOMAIN qLog : RateLimited(i) /\ NonChallenge(i)) =>
          qSent = qRetries + 1 /\ qResult = "RateLimitError"
    /\ (Ended /\ \A i \in DOMAIN qLog : ServerOrTransport(i) /\ NonChallenge(i)) =>
          qSent = qRetries + 1 /\ qResult = "TargetError"
    /\ \A i \in DOMAIN qLog : (Successful(i) /\ NonChallenge(i)) => EndsWith(i, "return")

\* a call with the most retries met 5xx responses and transport failures only
\* and ended with TargetError after retries+1 requests
C12_Witness ==
    /\ qRetries = MaxRetries
    /\ qSent = MaxRetries + 1
    /\ qResult = "TargetError"
    /\ \A i \in DOMAIN qLog : ServerOrTransport(i) /\ NonChallenge(i)
    /\ \E i, j \in DOMAIN qLog : qLog[i].status = NoStatus /\ qLog[j].status >= 500

\* status 4xx other than 401, 403 and 418
OtherClientError(i) ==
    qLog[i].status >= 400 /\ qLog[i].status < 500 /\ qLog[i].status \notin {401, 403, 418}

(***************************************************************************)
(* C13 as stated: a response with status 401 ends the call at once with    *)
(* AuthError, a response with another 4xx status except 403 and 418 ends   *)
(* it at once with TargetError, whatever retries remain.                   *)
(***************************************************************************)
C13_TerminalStatuses ==
    \A i \in DOMAIN qLog :
        /\ qLog[i].status = 401 => EndsWith(i, "AuthError")
        /\ OtherClientError(i) => EndsWith(i, "TargetError")

(***************************************************************************)
(* C13, amended: the same for responses that are not taken into the        *)
(* challenge detour.                                                       *)
(***************************************************************************)
C13_TerminalStatusesNoChallenge ==
    \A i \in DOMAIN qLog :
        /\ (qLog[i].status = 401 /\ NonChallenge(i)) => EndsWith(i, "AuthError")
        /\ (OtherClientError(i) /\ NonChallenge(i)) => EndsWith(i, "TargetError")

\* a call with the most retries retried a 5xx, then met a 401 and ended with
\* AuthError with retries to spare
C13_Witness ==
    /\ qRetries = MaxRetries
    /\ Len(qLog) = 2
    /\ qLog[1].status >= 500
    /\ qLog[2].status = 401 /\ NonChallenge(2)
    /\ qResult = "AuthError"
    /\ qSent <= qRetries

(***************************************************************************)
(* C14: a solved challenge does not consume an attempt: the attempts used  *)
(* up so far are as many as the requests that were not solved challenges.  *)
(***************************************************************************)
C14_ChallengeKeepsAttempts ==
    qAttempt = Cardinality({i \in DOMAIN qLog : qLog[i].solve # "solved"})

C16_HooksBracketDetour == qPause = qDetours /\ qResume = qDetours

(***************************************************************************)
(* The watermark specification. The listing is one a properly paging       *)
(* upstream serves; run 1 starts with no checkpoint on disk and a stamps   *)
(* file that holds a watermark of the target or none; neither count nor    *)
(* fast_update is set. A run ends normally, by an exception or by a        *)
(* KeyboardInterrupt; the run after it is a new process, which loads the   *)
(* stamps file and the checkpoint the first one left.                      *)
(***************************************************************************)
\* the posts of a listing in the order the iterator meets them
RECURSIVE Flat(_)
Flat(u) == IF u = <<>> THEN <<>> ELSE Head(u).posts \o Flat(Tail(u))

\* the mids in the order this specification's listings list them
MidSeq == <<"m1", "m2">>

\* the listings of the target, its posts named in the order they are listed
StampListings ==
    {u \in RunListings :
        WellFormed(u) /\ Flat(u) = SubSeq(MidSeq, 1, Len(Flat(u)))}

\* the clock's reading when a checkpoint is frozen: one reading, as the
\* timestamp of a checkpoint is never read back
StampClock == {"t1"}

\* the ways a run of download_target ends
StampEnds == {"done", "interrupted", "failed"}

StampInit ==
    /\ wUp \in StampListings
    /\ wCreated \in [Mids -> CreatedTimes]
    /\ wRun = 1
    /\ wPc = "loop"
    /\ wIt = CreateIterator(Absent)
    /\ wCur = None
    /\ wCk = Absent
    /\ wFile \in {[NoStamps EXCEPT ![TargetKey] = c] : c \in 0..MaxCreated}
    /\ wStamps = wFile
    /\ wLoaded = wFile
    /\ wCutoff = wFile[TargetKey]
    /\ wNewest = NoStamp
    /\ wFailed = 0
    /\ wLast = NoJobs
    /\ wPosts = [r \in Runs |-> <<>>]
    /\ wEnd1 = None
    /\ IterIdle
    /\ CkIdle
    /\ RateIdle
    /\ DlIdle
    /\ RunIdle
    /\ LockIdle
    /\ ReqIdle
    /\ EvIdle
    /\ OptIdle
    /\ TgIdle
    /\ PoolIdle
    /\ SeqIdle
    /\ MetaIdle
    /\ LifeIdle

\* "for post in iterator": the next post is yielded and passes the cutoff
\* test; or the iterator is exhausted or the post is not newer than the
\* cutoff, and the target ends normally: the watermark is set under
\* resolved.key, _clear_ck, _save_stamps (an exception of which is caught by
\* "except Exception")
StampNext ==
    /\ wPc = "loop"
    /\ LET r == IterNext(wIt, wUp)
       IN  /\ wIt' = r.it
           /\ IF r.post = None \/ PastCutoff(wCreated[r.post], wCutoff)
              THEN \E so \in StampSaveOutcomes :
                      /\ wStamps' = StampsAfter(wStamps, TargetKey, wNewest, wCutoff)
                      /\ wCk' = Absent
                      /\ wFile' = SaveStamps(wFile, wStamps', so)
                      /\ wPc' = IF so = "saved" THEN "done" ELSE "error"
                      /\ UNCHANGED wCur
              ELSE /\ wPc' = "post"
                   /\ wCur' = r.post
                   /\ UNCHANGED <<wCk, wStamps, wFile>>
    /\ wLast' = NoJobs
    /\ UNCHANGED <<wUp, wCreated, wRun, wLoaded, wCutoff, wNewest, wFailed, wPosts>>
    /\ UNCHANGED wEnd1
    /\ StampFrame

\* the post's jobs all finish within the timeout: the counters, newest,
\* _save_ck, POST_DONE
StampPostDone ==
    /\ wPc = "post"
    /\ \E results \in MediaResults, outcome \in SaveOutcomes,
          order \in Orderings(wIt.seen), ts \in StampClock :
          /\ ~TimedOut(results)
          /\ wLast' = results
          /\ wFailed' = wFailed + FailedJobs(results)
          /\ wNewest' = NewestAfter(wNewest, wCreated[wCur], TimedOut(results))
          /\ wCk' = SaveCk(wCk, wIt, order, ts, outcome)
          /\ wPc' = IF outcome = "raised" THEN "error" ELSE "loop"
          /\ wPosts' = [wPosts EXCEPT ![wRun] =
                Append(@, [mid |-> wCur, timedOut |-> FALSE,
                           fetched |-> AllFetched(results),
                           postDone |-> outcome # "raised"])]
    /\ UNCHANGED <<wUp, wCreated, wRun, wIt, wCur, wStamps, wFile, wLoaded, wCutoff>>
    /\ UNCHANGED wEnd1
    /\ StampFrame

\* as_completed raises FuturesTimeoutError: the jobs not done are counted
\* failed, newest and the checkpoint are left alone, POST_DONE
StampPostTimedOut ==
    /\ wPc = "post"
    /\ \E results \in MediaResults :
          /\ TimedOut(results)
          /\ wLast' = results
          /\ wFailed' = wFailed + FailedJobs(results)
          /\ wNewest' = NewestAfter(wNewest, wCreated[wCur], TimedOut(results))
          /\ wPosts' = [wPosts EXCEPT ![wRun] =
                Append(@, [mid |-> wCur, timedOut |-> TRUE,
                           fetched |-> AllFetched(results),
                           postDone |-> TRUE])]
    /\ wPc' = "loop"
    /\ UNCHANGED <<wUp, wCreated, wRun, wIt, wCur, wCk, wStamps, wFile, wLoaded,
                   wCutoff>>
    /\ UNCHANGED wEnd1
    /\ StampFrame

\* an exception leaves the loop: the iterator's fetch fails, or the post's
\* metadata cannot be written
StampRaise ==
    /\ wPc \in {"loop", "post"}
    /\ wPc' = "error"
    /\ wLast' = NoJobs
    /\ UNCHANGED <<wUp, wCreated, wRun, wIt, wCur, wCk, wStamps, wFile, wLoaded,
                   wCutoff, wNewest, wFailed, wPosts>>
    /\ UNCHANGED wEnd1
    /\ StampFrame

\* _handle_interrupt and _handle_error, both called with ck_key as key:
\* _save_ck, the watermark set under key, _save_stamps
Handler(end) ==
    \E outcome \in SaveOutcomes, order \in Orderings(wIt.seen), ts \in StampClock,
       so \in StampSaveOutcomes :
       /\ wCk' = SaveCk(wCk, wIt, order, ts, outcome)
       /\ IF outcome = "raised"
          THEN /\ wPc' = "failed"
               /\ UNCHANGED <<wStamps, wFile>>
          ELSE /\ wPc' = end
               /\ wStamps' = StampsAfter(wStamps, CkKey, wNewest, wCutoff)
               /\ wFile' = SaveStamps(wFile, wStamps', so)

\* except Exception
StampHandleError ==
    /\ wPc = "error"
    /\ Handler("failed")
    /\ wLast' = NoJobs
    /\ UNCHANGED <<wUp, wCreated, wRun, wIt, wCur, wLoaded, wCutoff, wNewest,
                   wFailed, wPosts>>
    /\ UNCHANGED wEnd1
    /\ StampFrame

\* except KeyboardInterrupt, between two posts or while a post is processed
StampInterrupt ==
    /\ wPc \in {"loop", "post"}
    /\ Handler("interrupted")
    /\ wLast' = NoJobs
    /\ UNCHANGED <<wUp, wCreated, wRun, wIt, wCur, wLoaded, wCutoff, wNewest,
                   wFailed, wPosts>>
    /\ UNCHANGED wEnd1
    /\ StampFrame

\* the following run: __init__ loads the stamps file, download_target
\* creates its iterator from the checkpoint on disk and reads the cutoff
StampResume ==
    /\ wRun = 1
    /\ wPc \in StampEnds
    /\ wRun' = 2
    /\ wPc' = "loop"
    /\ wIt' = CreateIterator(wCk)
    /\ wCur' = None
    /\ wStamps' = wFile
    /\ wLoaded' = wFile
    /\ wCutoff' = wFile[TargetKey]
    /\ wNewest' = NoStamp
    /\ wFailed' = 0
    /\ wLast' = NoJobs
    /\ UNCHANGED <<wUp, wCreated, wCk, wFile, wPosts>>
    /\ wEnd1' = wPc
    /\ StampFrame

StampNextRel ==
    \/ StampNext
    \/ StampPostDone
    \/ StampPostTimedOut
    \/ StampRaise
    \/ StampHandleError
    \/ StampInterrupt
    \/ StampResume

SpecStamp == StampInit /\ [][StampNextRel]_vars

\* the posts of run r that timed out
TimedOutIn(r) == {wPosts[r][i].mid : i \in {j \in DOMAIN wPosts[r] : wPosts[r][j].timedOut}}

\* the posts run r processed
ProcessedIn(r) == {wPosts[r][i].mid : i \in DOMAIN wPosts[r]}

(***************************************************************************)
(* C17: when the media collection of a post exceeds the per-post timeout,  *)
(* no checkpoint is saved at that post's boundary and the post's           *)
(* created_at does not update newest; every job that has not finished is   *)
(* counted as failed, and POST_DONE is still emitted for the post.         *)
(***************************************************************************)
C17_TimeoutLeavesNoMark ==
    [][(wPc = "post" /\ TimedOut(wLast')) =>
          /\ wCk' = wCk
          /\ wNewest' = wNewest
          /\ wFailed' = wFailed + Count(wLast', "FAILED") + Count(wLast', "unfinished")
          /\ Len(wPosts'[wRun]) = Len(wPosts[wRun]) + 1
          /\ wPosts'[wRun][Len(wPosts'[wRun])].mid = wCur
          /\ wPosts'[wRun][Len(wPosts'[wRun])].postDone]_vars

\* a second post, newer than the first, timed out with a job unfinished,
\* after the first had set newest and saved a checkpoint
C17_Witness ==
    /\ wPc = "loop"
    /\ Len(wPosts[wRun]) = 2
    /\ ~wPosts[wRun][1].timedOut
    /\ wPosts[wRun][2].timedOut /\ wPosts[wRun][2].postDone
    /\ wCreated[wPosts[wRun][2].mid] > wCreated[wPosts[wRun][1].mid]
    /\ Count(wLast, "unfinished") = MaxJobs
    /\ wFailed = MaxJobs
    /\ wNewest = wCreated[wPosts[wRun][1].mid]
    /\ wCk # Absent
    /\ wPosts[wRun][2].mid \notin
          Range(Get(wCk.fields, "seen_mids", <<>>)) \cup {None}

\* the mids the checkpoint on disk marks as seen
MarkedSeen ==
    LET l == Load(wCk, CurHash)
    IN  IF l.res = "state" THEN Range(l.state.seen_mids) ELSE {}

(***************************************************************************)
(* C18: a post that timed out in a run is retried by the next run: no      *)
(* checkpoint the run leaves on disk marks the post as seen, and no        *)
(* watermark the run writes makes the next run stop before the post or     *)
(* skip it.                                                                *)
(***************************************************************************)
C18_TimedOutPostRetried ==
    /\ (wRun = 1 /\ wPc \in StampEnds) => TimedOutIn(1) \cap MarkedSeen = {}
    /\ (wRun = 2 /\ wPc = "done") => TimedOutIn(1) \subseteq ProcessedIn(2)

(***************************************************************************)
(* C19: for every key of the stamps map and every run of download_target,  *)
(* however the run ends, the value persisted after the run is not older    *)
(* than the value loaded before it, and a key present before the run is    *)
(* not removed.                                                            *)
(***************************************************************************)
C19_WatermarkMonotone ==
    wPc \in StampEnds => \A k \in StampKeys : wFile[k] >= wLoaded[k]

(***************************************************************************)
(* C20: a watermark a run writes is the created_at of a post of that run   *)
(* all of whose media jobs ended DOWNLOADED or SKIPPED; a post with a      *)
(* failed or timed-out media job never supplies it.                        *)
(***************************************************************************)
C20_WatermarkFromFetchedPost ==
    wPc \in StampEnds =>
       \A k \in StampKeys :
          wFile[k] # wLoaded[k] =>
             \E i \in DOMAIN wPosts[wRun] :
                /\ wPosts[wRun][i].fetched
                /\ wCreated[wPosts[wRun][i].mid] = wFile[k]

\* created_at does not increase along the listing
NonIncreasing ==
    \A i, j \in DOMAIN Flat(wUp) :
       i < j => wCreated[Flat(wUp)[i]] >= wCreated[Flat(wUp)[j]]

(***************************************************************************)
(* C21: after a run over a target ended normally with a stamps file and a  *)
(* listing whose created_at does not increase, a second run of the same    *)
(* target over the same listing with the same stamps file processes no     *)
(* post (posts_processed = 0, no download dispatched).                     *)
(***************************************************************************)
C21_RerunIsNoOp ==
    (wRun = 2 /\ wEnd1 = "done" /\ NonIncreasing) => wPosts[2] = <<>> /\ wPc # "post"

\* the same when no post of the first run timed out
C21_RerunIsNoOpWithoutTimeout ==
    (wRun = 2 /\ wEnd1 = "done" /\ NonIncreasing /\ TimedOutIn(1) = {}) =>
       wPosts[2] = <<>> /\ wPc # "post"

\* run 1 processed two posts with no timeout and ended normally, and run 2
\* has ended normally at the watermark gate
C21_Witness ==
    /\ wRun = 2 /\ wEnd1 = "done" /\ NonIncreasing
    /\ Len(wPosts[1]) = 2 /\ TimedOutIn(1) = {}
    /\ wPc = "done"
    /\ wCutoff = wCreated[wPosts[1][1].mid]
    /\ wPosts[2] = <<>>

(***************************************************************************)
(* The event specification. The call begins after TARGET_START, with a     *)
(* checkpoint on disk that an earlier run over the listing left after its  *)
(* first post, or with none. For each post the iterator yields, the        *)
(* environment decides whether the watermark gate finds it old, whether    *)
(* one of its destinations exists, and how many media jobs it has. A       *)
(* KeyboardInterrupt may arrive between two posts, while the futures of a  *)
(* post are collected, and at the normal end before TARGET_DONE.           *)
(***************************************************************************)
\* how _save_ck may end: at once with no_resume, else as SaveOutcomes says
SaveOutcomesOpt(no_resume) == IF no_resume THEN {"skipped"} ELSE SaveOutcomes

\* the options of the call
EvOptions == [count : 0..MaxCount, fast_update : BOOLEAN, no_resume : BOOLEAN]

\* the checkpoint files the call may find: none, or the one a run over the
\* listing saved after its first post
EvCheckpoints(u) ==
    {Absent} \cup
    {SaveCk(Absent, IterNext(NewIterator(CurHash), u).it, order, "t1", "saved") :
        order \in Orderings(IterNext(NewIterator(CurHash), u).it.seen)}

RECURSIVE SumJobs(_)
SumJobs(d) == IF d = <<>> THEN 0 ELSE Head(d).jobs + SumJobs(Tail(d))

\* the indices of the events of a kind
Events(kind) == {i \in DOMAIN eLog : eLog[i].kind = kind}

\* the futures as_completed has not yielded
PendingJobs == {i \in DOMAIN eJobs : eJobs[i] = Pending}

\* the timeout handler as it would be if it emitted no event
TimeoutEvents_None(jobs, i, done, index) == <<>>

\* the MEDIA_DONE events of the timeout handler, for the pending futures in
\* the order of future_to_path
RECURSIVE TimeoutEvents(_, _, _, _)
TimeoutEvents(jobs, i, done, index) ==
    IF i > Len(jobs) THEN <<>>
    ELSE IF jobs[i] = Pending
    THEN <<MediaDone("FAILED", done + 1, Len(jobs), index)>>
            \o TimeoutEvents(jobs, i + 1, done + 1, index)
    ELSE TimeoutEvents(jobs, i + 1, done, index)

EvInit ==
    /\ eUp \in StampListings
    /\ eOpt \in EvOptions
    /\ eCk0 \in EvCheckpoints(eUp)
    /\ eCk = eCk0
    /\ ePc = "loop"
    /\ eIt0 = CreateIteratorOpt(eCk0, eOpt.no_resume)
    /\ eIt = eIt0
    /\ eCur = None
    /\ eJobs = <<>>
    /\ eDone = 0
    /\ eCnt = NoCounts
    /\ eLog = <<TargetStart>>
    /\ eMeta = {}
    /\ eDisp = <<>>
    /\ eStop = None
    /\ eStopLen = 0
    /\ eExit = NoExit
    /\ IterIdle
    /\ CkIdle
    /\ RateIdle
    /\ DlIdle
    /\ RunIdle
    /\ LockIdle
    /\ ReqIdle
    /\ StampIdle
    /\ OptIdle
    /\ TgIdle
    /\ PoolIdle
    /\ SeqIdle
    /\ MetaIdle
    /\ LifeIdle

\* the loop is left: why, and with how many events emitted
Stop(why) ==
    /\ ePc' = "end"
    /\ eStop' = why
    /\ eStopLen' = Len(eLog)
    /\ UNCHANGED <<eJobs, eDone, eMeta, eDisp>>

\* "for post in iterator" up to the dispatch: the iterator is exhausted; or
\* the count test, the watermark gate or the fast_update test ends the loop;
\* or the metadata is written and the jobs are submitted
EvNext ==
    /\ ePc = "loop"
    /\ LET r == IterNext(eIt, eUp)
       IN  /\ eIt' = r.it
           /\ IF r.post = None
              THEN Stop("exhausted") /\ UNCHANGED eCur
              ELSE /\ eCur' = r.post
                   /\ \E old \in BOOLEAN, n \in 0..EvMaxJobs, hit \in BOOLEAN :
                         /\ hit => n > 0
                         /\ IF CountReached(eOpt.count, eCnt.processed)
                            THEN Stop("count")
                            ELSE IF old
                            THEN Stop("gate")
                            ELSE IF FastUpdateStop(eOpt.fast_update, hit)
                            THEN Stop("fast_update")
                            ELSE /\ eMeta' = eMeta \cup {r.post}
                                 /\ eJobs' = [i \in 1..n |-> Pending]
                                 /\ eDisp' = Append(eDisp, [mid |-> r.post, jobs |-> n])
                                 /\ eDone' = 0
                                 /\ ePc' = "collect"
                                 /\ UNCHANGED <<eStop, eStopLen>>
    /\ UNCHANGED <<eUp, eOpt, eCk, eCnt, eCk0, eIt0, eLog, eExit>>
    /\ EvFrame

\* as_completed yields a future: its outcome is counted, MEDIA_DONE
EvCollect ==
    /\ ePc = "collect"
    /\ \E i \in PendingJobs, outcome \in Outcomes :
          /\ eJobs' = [eJobs EXCEPT ![i] = outcome]
          /\ eCnt' = Counted(eCnt, outcome)
          /\ eDone' = eDone + 1
          /\ eLog' = Append(eLog, MediaDone(outcome, eDone + 1, Len(eJobs),
                                            eCnt.processed + 1))
    /\ UNCHANGED <<eUp, eOpt, eCk, ePc, eIt, eCur, eCk0, eIt0, eMeta, eDisp,
                   eStop, eStopLen, eExit>>
    /\ EvFrame

\* as_completed raises FuturesTimeoutError: every pending future is counted
\* failed with a MEDIA_DONE; processed, no checkpoint, POST_DONE
EvTimeout ==
    /\ ePc = "collect"
    /\ PendingJobs # {}
    /\ LET k == Cardinality(PendingJobs)
           cnt == [eCnt EXCEPT !.failed = @ + k, !.ok = FALSE, !.processed = @ + 1]
       IN  /\ eCnt' = cnt
           /\ eLog' = eLog \o TimeoutEvents(eJobs, 1, eDone, eCnt.processed + 1)
                          \o <<PostDone(cnt.processed)>>
    /\ eJobs' = <<>>
    /\ eDone' = 0
    /\ ePc' = "loop"
    /\ UNCHANGED <<eUp, eOpt, eCk, eIt, eCur, eCk0, eIt0, eMeta, eDisp, eStop,
                   eStopLen, eExit>>
    /\ EvFrame

\* every future has been yielded: processed, _save_ck, POST_DONE
EvPostEnd ==
    /\ ePc = "collect"
    /\ PendingJobs = {}
    /\ \E outcome \in SaveOutcomesOpt(eOpt.no_resume),
          order \in Orderings(eIt.seen), ts \in StampClock :
          /\ eCk' = SaveCk(eCk, eIt, order, ts, outcome)
          /\ eCnt' = [eCnt EXCEPT !.processed = @ + 1]
          /\ IF outcome = "raised"
             THEN ePc' = "error" /\ UNCHANGED eLog
             ELSE /\ ePc' = "loop"
                  /\ eLog' = Append(eLog, PostDone(eCnt.processed + 1))
    /\ eJobs' = <<>>
    /\ eDone' = 0
    /\ UNCHANGED <<eUp, eOpt, eIt, eCur, eCk0, eIt0, eMeta, eDisp, eStop,
                   eStopLen, eExit>>
    /\ EvFrame

\* the normal end: _clear_ck, _save_stamps, TARGET_DONE, "return ok"; an
\* exception of _save_stamps is caught by "except Exception"
EvEnd ==
    /\ ePc = "end"
    /\ eCk' = ClearCk(eCk, eOpt.no_resume)
    /\ \E so \in StampSaveOutcomes :
          IF so = "saved"
          THEN /\ eLog' = Append(eLog, TargetDone(eCnt, eCnt.ok))
               /\ ePc' = "returned"
               /\ eExit' = [via |-> "normal", raised |-> None]
          ELSE /\ ePc' = "error"
               /\ UNCHANGED <<eLog, eExit>>
    /\ UNCHANGED <<eUp, eOpt, eIt, eCur, eJobs, eDone, eCnt, eCk0, eIt0, eMeta,
                   eDisp, eStop, eStopLen>>
    /\ EvFrame

\* an exception leaves the loop between two posts: the iterator's fetch
\* fails
EvRaise ==
    /\ ePc = "loop"
    /\ ePc' = "error"
    /\ UNCHANGED <<eUp, eOpt, eCk, eIt, eCur, eJobs, eDone, eCnt, eCk0, eIt0,
                   eLog, eMeta, eDisp, eStop, eStopLen, eExit>>
    /\ EvFrame

\* _handle_error and _handle_interrupt after the events of their branch:
\* _save_ck, _save_stamps; the call ends with what the branch does, or with
\* the exception one of the two raised
Flush(via, ends) ==
    \E outcome \in SaveOutcomesOpt(eOpt.no_resume), order \in Orderings(eIt.seen),
       ts \in StampClock, so \in StampSaveOutcomes :
       /\ eCk' = SaveCk(eCk, eIt, order, ts, outcome)
       /\ eExit' = [via |-> via,
                    raised |-> IF outcome = "raised" THEN "CheckpointError"
                               ELSE IF so = "raised" THEN "OSError"
                               ELSE ends]

\* except Exception: TARGET_DONE with ok false, _handle_error, return False
EvHandleError ==
    /\ ePc = "error"
    /\ eLog' = Append(eLog, TargetDone(eCnt, FALSE))
    /\ Flush("error", None)
    /\ ePc' = "returned"
    /\ UNCHANGED <<eUp, eOpt, eIt, eCur, eJobs, eDone, eCnt, eCk0, eIt0, eMeta,
                   eDisp, eStop, eStopLen>>
    /\ EvFrame

\* except KeyboardInterrupt: INTERRUPTED, TARGET_DONE with ok false,
\* _handle_interrupt, raise
EvInterrupt ==
    /\ ePc \in {"loop", "collect", "end"}
    /\ eLog' = eLog \o InterruptEvents(eCnt)
    /\ Flush("interrupt", "KeyboardInterrupt")
    /\ ePc' = "returned"
    /\ UNCHANGED <<eUp, eOpt, eIt, eCur, eJobs, eDone, eCnt, eCk0, eIt0, eMeta,
                   eDisp, eStop, eStopLen>>
    /\ EvFrame

EvNextRel ==
    \/ EvNext
    \/ EvCollect
    \/ EvTimeout
    \/ EvPostEnd
    \/ EvEnd
    \/ EvRaise
    \/ EvHandleError
    \/ EvInterrupt

SpecEv == EvInit /\ [][EvNextRel]_vars

(***************************************************************************)
(* C22: for a target whose TARGET_START was emitted, exactly one           *)
(* TARGET_DONE is emitted, after TARGET_START and after every MEDIA_DONE,  *)
(* POST_DONE and INTERRUPTED of the target, on every exit path (normal     *)
(* end, exception, KeyboardInterrupt); on KeyboardInterrupt INTERRUPTED    *)
(* precedes the TARGET_DONE, whose ok is false.                            *)
(***************************************************************************)
C22_OneTargetDoneLast ==
    /\ eLog[1].kind = "TARGET_START"
    /\ Events("TARGET_DONE") \subseteq {Len(eLog)}
    /\ ePc = "returned" => Events("TARGET_DONE") = {Len(eLog)}
    /\ eExit.via = "interrupt" =>
          /\ Events("INTERRUPTED") = {Len(eLog) - 1}
          /\ ~eLog[Len(eLog)].ok

\* an interrupt arrived while the futures of the second post were collected,
\* after a MEDIA_DONE of it, and the call ended with the interrupt re-raised
C22_Witness ==
    /\ ePc = "returned"
    /\ eExit = [via |-> "interrupt", raised |-> "KeyboardInterrupt"]
    /\ Len(eDisp) = 2
    /\ eCnt.processed = 1
    /\ eDone = 1
    /\ Events("POST_DONE") # {}

\* the last event before index p that is not a MEDIA_DONE
Before(p) ==
    CHOOSE q \in 1..(p - 1) :
       /\ eLog[q].kind # "MEDIA_DONE"
       /\ \A i \in (q + 1)..(p - 1) : eLog[i].kind = "MEDIA_DONE"

(***************************************************************************)
(* C23: for every post that reaches POST_DONE, exactly one MEDIA_DONE was  *)
(* emitted for each of its dispatched media jobs (finished, failed, or     *)
(* counted failed by the timeout), with media_done running 1, 2, ...,      *)
(* media_total in the order of emission, all of them before the single     *)
(* POST_DONE of the post.                                                  *)
(***************************************************************************)
C23_MediaDoneBeforePostDone ==
    \A p \in Events("POST_DONE") :
       LET k == eLog[p].posts_processed
       IN  /\ k \in DOMAIN eDisp
           /\ \A q \in Events("POST_DONE") : eLog[q].posts_processed = k => q = p
           /\ p - Before(p) - 1 = eDisp[k].jobs
           /\ \A j \in 1..eDisp[k].jobs :
                 /\ eLog[Before(p) + j].media_done = j
                 /\ eLog[Before(p) + j].media_total = eDisp[k].jobs
                 /\ eLog[Before(p) + j].post_index = k
           /\ \A i \in Events("MEDIA_DONE") :
                 eLog[i].post_index = k => (Before(p) < i /\ i < p)

\* a post with the most jobs reached POST_DONE after one of its futures was
\* yielded and the others were counted failed by the timeout; then a second
\* post reached POST_DONE
C23_Witness ==
    /\ Cardinality(Events("POST_DONE")) = 2
    /\ eDisp[1].jobs = EvMaxJobs
    /\ eLog[2].kind = "MEDIA_DONE" /\ eLog[2].outcome = "DOWNLOADED"
    /\ eCnt.failed = EvMaxJobs - 1
    /\ eCnt.downloaded = 1 + eDisp[2].jobs
    /\ eDisp[2].jobs > 0

\* the MEDIA_DONE events with the outcome
MediaDoneWith(outcome) == {i \in Events("MEDIA_DONE") : eLog[i].outcome = outcome}

\* the counters of TARGET_DONE are the numbers of MEDIA_DONE events
CountersMatchEvents ==
    \A t \in Events("TARGET_DONE") :
       /\ eLog[t].downloaded = Cardinality(MediaDoneWith("DOWNLOADED"))
       /\ eLog[t].skipped = Cardinality(MediaDoneWith("SKIPPED"))
       /\ eLog[t].failed = Cardinality(MediaDoneWith("FAILED"))

\* the counters of the TARGET_DONE event t add up to the jobs dispatched for
\* the posts it reports as processed
CountersMatchJobs(t) ==
    eLog[t].downloaded + eLog[t].skipped + eLog[t].failed
       = SumJobs(SubSeq(eDisp, 1, eLog[t].posts_processed))

(***************************************************************************)
(* C24: in the TARGET_DONE event of a target, downloaded + skipped +       *)
(* failed is the number of media jobs dispatched for the target's          *)
(* processed posts, and each of the three counters is the number of        *)
(* MEDIA_DONE events emitted with that outcome for the target.             *)
(***************************************************************************)
C24_CountersConsistent ==
    /\ CountersMatchEvents
    /\ \A t \in Events("TARGET_DONE") : CountersMatchJobs(t)

\* the same, with the jobs clause for the calls that no KeyboardInterrupt
\* ended while the futures of a post were collected
C24_CountersConsistentOutsideCollection ==
    /\ CountersMatchEvents
    /\ \A t \in Events("TARGET_DONE") :
          Len(eDisp) = eLog[t].posts_processed => CountersMatchJobs(t)

\* a normal end after two posts, with jobs downloaded, skipped and failed
C24_Witness ==
    /\ ePc = "returned"
    /\ eExit.via = "normal"
    /\ eCnt.processed = 2
    /\ eCnt.downloaded > 0 /\ eCnt.skipped > 0 /\ eCnt.failed > 0
    /\ ~eLog[Len(eLog)].ok

(***************************************************************************)
(* C30: the stop conditions act before any side effect of the post: once   *)
(* count posts have been processed (count > 0), or fast_update finds a     *)
(* destination of the post that exists with size > 0, the loop ends; no    *)
(* media job is dispatched, no metadata file is written and no POST_DONE   *)
(* is emitted for that post or a later one; so at most count posts reach   *)
(* POST_DONE.                                                              *)
(***************************************************************************)
C30_StopBeforeSideEffects ==
    /\ eStop \in {"count", "fast_update"} =>
          /\ eCur \notin eMeta
          /\ \A i \in DOMAIN eDisp : eDisp[i].mid # eCur
          /\ eJobs = <<>>
          /\ ePc \in {"end", "error", "returned"}
          /\ \A i \in (eStopLen + 1)..Len(eLog) :
                eLog[i].kind \notin {"MEDIA_DONE", "POST_DONE"}
    /\ eStop = "count" => eCnt.processed = eOpt.count
    /\ eOpt.count > 0 => Cardinality(Events("POST_DONE")) <= eOpt.count

\* with count set, the loop ended at the post after the count-th, which had
\* media jobs to dispatch, and the call returned
C30_Witness ==
    /\ eOpt.count = MaxCount
    /\ eStop = "count"
    /\ Cardinality(Events("POST_DONE")) = MaxCount
    /\ eCur \in Mids /\ eCur \notin eMeta
    /\ Len(eDisp) = MaxCount
    /\ ePc = "returned" /\ eExit.via = "normal"
    /\ eLog[Len(eLog)].posts_processed = MaxCount

(***************************************************************************)
(* C27: when the loop of a target ends without exception or interrupt      *)
(* (iterator exhausted, count reached, watermark gate, fast_update stop),  *)
(* the target's checkpoint file does not exist when download_target        *)
(* returns, also when media jobs failed.                                   *)
(***************************************************************************)
C27_CheckpointClearedAtLoopEnd ==
    (eStop # None /\ ePc = "returned" /\ eExit.via = "normal") => eCk = Absent

\* the same for the calls that have resume enabled and return through the
\* normal end
C27_CheckpointClearedAtNormalReturn ==
    (ePc = "returned" /\ eExit.via = "normal" /\ ~eOpt.no_resume) => eCk = Absent

\* a call that began with a checkpoint on disk, processed a post with a
\* failed job and returned through the normal end
C27_Witness ==
    /\ ePc = "returned" /\ eExit.via = "normal" /\ ~eOpt.no_resume
    /\ eCk0 # Absent
    /\ eCnt.processed > 0
    /\ eCnt.failed > 0
    /\ eCk = Absent

(***************************************************************************)
(* C29: with no_resume set, the call never reads, writes or deletes the    *)
(* checkpoint file: at every point of the run (normal, error or interrupt) *)
(* the file is what it was before the run, and the iteration starts at     *)
(* page 1 with an empty seen set.                                          *)
(***************************************************************************)
C29_NoResumeLeavesCheckpoints ==
    eOpt.no_resume => (eCk = eCk0 /\ eIt0 = NewIterator(CurHash))

\* a call with no_resume that found a checkpoint of an earlier run,
\* processed a post and ended through the interrupt handler
C29_Witness ==
    /\ eOpt.no_resume
    /\ eCk0 # Absent
    /\ ePc = "returned"
    /\ eExit.via = "interrupt"
    /\ eCnt.processed > 0
    /\ eCk = eCk0

(***************************************************************************)
(* The options specification: a run with resume enabled processes the      *)
(* first post of the target and is interrupted, its handler saving the     *)
(* checkpoint; a second run then creates its iterator for the same target  *)
(* and checkpoint directory.                                               *)
(***************************************************************************)
OptInit ==
    /\ oA \in OptionVectors
    /\ oB = oA
    /\ oNoResume = FALSE
    /\ oUp \in {u \in StampListings : Flat(u) # <<>>}
    /\ oFile = Absent
    /\ oItB = NewIterator(HashOptions(oA))
    /\ oPc = "first"
    /\ IterIdle
    /\ CkIdle
    /\ RateIdle
    /\ DlIdle
    /\ RunIdle
    /\ LockIdle
    /\ ReqIdle
    /\ StampIdle
    /\ EvIdle
    /\ TgIdle
    /\ PoolIdle
    /\ SeqIdle
    /\ MetaIdle
    /\ LifeIdle

\* the first run: _create_iterator, one post, _handle_interrupt's _save_ck
OptFirstRun ==
    /\ oPc = "first"
    /\ \E order \in Orderings(IterNext(CreateIteratorWith(oFile, oA, FALSE), oUp).it.seen),
          ts \in StampClock, outcome \in SaveOutcomes :
          oFile' = SaveCk(oFile, IterNext(CreateIteratorWith(oFile, oA, FALSE), oUp).it,
                          order, ts, outcome)
    /\ oPc' = "second"
    /\ UNCHANGED <<oA, oB, oNoResume, oUp, oItB>>
    /\ OptFrame

\* the second run: WeiboLoader(...) with its own options, _create_iterator
OptSecondRun ==
    /\ oPc = "second"
    /\ \E b \in OptionVectors, nr \in BOOLEAN :
          /\ oB' = b
          /\ oNoResume' = nr
          /\ oItB' = CreateIteratorWith(oFile, b, nr)
    /\ oPc' = "created"
    /\ UNCHANGED <<oA, oUp, oFile>>
    /\ OptFrame

OptNextRel == OptFirstRun \/ OptSecondRun
SpecOpt == OptInit /\ [][OptNextRel]_vars

\* the six options that differ between two vectors
Differing(a, b) == {k \in DOMAIN a : a[k] # b[k]}
\* the same with the count as __init__ stores it
DifferingStored(a, b) ==
    {k \in DOMAIN a : IF k = "count" THEN Max(0, a[k]) # Max(0, b[k])
                                     ELSE a[k] # b[k]}
\* the second run's iterator starts from page 1 with an empty seen set
StartsFresh == oItB.page = 1 /\ oItB.seen = {} /\ oItB.cursor = None
\* the second run's iterator continues from the saved checkpoint
StartsThawed ==
    /\ oItB.page = oFile.fields.page
    /\ oItB.cursor = oFile.fields.cursor
    /\ oItB.seen = Range(oFile.fields.seen_mids)
    /\ oItB.seen # {}

(***************************************************************************)
(* C28: a checkpoint saved by a run with option vector A is never thawed   *)
(* by a run whose vector differs from A in any of dirname_pattern,         *)
(* filename_pattern, no_videos, no_pictures, count, fast_update (that run  *)
(* starts from page 1 with an empty seen set); a run with the identical    *)
(* six options does thaw it.                                               *)
(***************************************************************************)
C28_OptionsHashSeparatesRuns ==
    (oPc = "created" /\ oFile # Absent) =>
        /\ Differing(oA, oB) # {} => StartsFresh
        /\ Differing(oA, oB) = {} => StartsThawed

\* the same with the count compared as the constructor stores it (negative
\* counts are 0) and the thaw claimed for a second run that resumes
C28_StoredOptionsSeparateRuns ==
    (oPc = "created" /\ oFile # Absent) =>
        /\ DifferingStored(oA, oB) # {} => StartsFresh
        /\ (DifferingStored(oA, oB) = {} /\ ~oNoResume) => StartsThawed

\* a second run that differs from the first in fast_update only and starts
\* fresh although a checkpoint is on disk
C28_Witness ==
    /\ oPc = "created"
    /\ oFile # Absent
    /\ Differing(oA, oB) = {"fast_update"}
    /\ ~oNoResume
    /\ StartsFresh

\* a second run with the first run's options that resumes from the checkpoint
C28_WitnessThawed ==
    /\ oPc = "created"
    /\ oFile # Absent
    /\ oB = oA
    /\ ~oNoResume
    /\ StartsThawed

(***************************************************************************)
(* The targets specification: download_targets over MaxTargets targets.    *)
(* A call of download_target is one step; how it may end is what           *)
(* download_target's branches give.                                        *)
(***************************************************************************)
Unset == "unset"

\* the ways download_target ends: the normal end; _resolve_target failed
\* (returns False); _create_iterator raised, before the try; the branch
\* "except Exception" (returns False unless _handle_error raised); the
\* branch "except KeyboardInterrupt" (re-raises unless _handle_interrupt
\* raised)
TargetExits ==
    {[via |-> "normal", raised |-> None], [via |-> "resolve", raised |-> None]}
    \cup [via : {"create"}, raised : {"TargetError", "KeyboardInterrupt"}]
    \cup [via : {"error"}, raised : {None, "CheckpointError", "OSError"}]
    \cup [via : {"interrupt"},
          raised : {"KeyboardInterrupt", "CheckpointError", "OSError"}]

\* the stamps in memory differ from the file after the call: a failed
\* _save_stamps leaves them unsaved, a successful one saves all
DirtyAfter(x, dirty) ==
    IF x.raised = "OSError" THEN TRUE
    ELSE IF x.via \in {"normal", "error", "interrupt"} /\ x.raised # "CheckpointError"
    THEN FALSE
    ELSE dirty

\* _save_stamps writes only when the stamps differ from the saved ones
StampSaveOutcomesIf(dirty) == IF dirty THEN StampSaveOutcomes ELSE {"saved"}

TgInit ==
    /\ tIdx = 1
    /\ tResults = [i \in 1..MaxTargets |-> Unset]
    /\ tStarted = <<>>
    /\ tExits = <<>>
    /\ tDirty \in BOOLEAN
    /\ tPc = "loop"
    /\ tRaised = None
    /\ IterIdle
    /\ CkIdle
    /\ RateIdle
    /\ DlIdle
    /\ RunIdle
    /\ LockIdle
    /\ ReqIdle
    /\ StampIdle
    /\ EvIdle
    /\ OptIdle
    /\ PoolIdle
    /\ SeqIdle
    /\ MetaIdle
    /\ LifeIdle

\* one turn of the loop: download_target returns
TgReturn ==
    /\ tPc = "loop" /\ tIdx <= MaxTargets
    /\ \E x \in {e \in TargetExits : e.raised = None}, ok \in BOOLEAN :
          /\ tExits' = Append(tExits, x)
          /\ tResults' = [tResults EXCEPT ![tIdx] = IF x.via = "normal" THEN ok ELSE FALSE]
          /\ tDirty' = DirtyAfter(x, tDirty)
    /\ tStarted' = Append(tStarted, tIdx)
    /\ tIdx' = tIdx + 1
    /\ UNCHANGED <<tPc, tRaised>>
    /\ TgFrame

\* one turn of the loop: an exception that is not a KeyboardInterrupt leaves
\* download_target; "except Exception" records False
TgException ==
    /\ tPc = "loop" /\ tIdx <= MaxTargets
    /\ \E x \in {e \in TargetExits : e.raised \notin {None, "KeyboardInterrupt"}} :
          /\ tExits' = Append(tExits, x)
          /\ tDirty' = DirtyAfter(x, tDirty)
    /\ tResults' = [tResults EXCEPT ![tIdx] = FALSE]
    /\ tStarted' = Append(tStarted, tIdx)
    /\ tIdx' = tIdx + 1
    /\ UNCHANGED <<tPc, tRaised>>
    /\ TgFrame

\* one turn of the loop: a KeyboardInterrupt leaves download_target;
\* flush(), whose _active_iters is empty again, then raise
TgKeyboardInterrupt ==
    /\ tPc = "loop" /\ tIdx <= MaxTargets
    /\ \E x \in {e \in TargetExits : e.raised = "KeyboardInterrupt"} :
       \E so \in StampSaveOutcomesIf(DirtyAfter(x, tDirty)) :
          /\ tExits' = Append(tExits, x)
          /\ tDirty' = (DirtyAfter(x, tDirty) /\ so = "raised")
          /\ tRaised' = IF so = "raised" THEN "OSError" ELSE "KeyboardInterrupt"
    /\ tStarted' = Append(tStarted, tIdx)
    /\ tPc' = "left"
    /\ UNCHANGED <<tIdx, tResults>>
    /\ TgFrame

\* after the loop: _save_stamps, return results
TgFinish ==
    /\ tPc = "loop" /\ tIdx > MaxTargets
    /\ \E so \in StampSaveOutcomesIf(tDirty) :
          /\ tDirty' = (tDirty /\ so = "raised")
          /\ tRaised' = IF so = "raised" THEN "OSError" ELSE None
    /\ tPc' = "left"
    /\ UNCHANGED <<tIdx, tResults, tStarted, tExits>>
    /\ TgFrame

TgNextRel == TgReturn \/ TgException \/ TgKeyboardInterrupt \/ TgFinish
SpecTg == TgInit /\ [][TgNextRel]_vars

\* a KeyboardInterrupt was delivered during call i of download_target
InterruptedCall(i) ==
    tExits[i].via = "interrupt" \/ tExits[i].raised = "KeyboardInterrupt"

\* an exception that is not a KeyboardInterrupt was raised in call i
FailedCall(i) ==
    ~InterruptedCall(i) /\ (tExits[i].via = "error" \/ tExits[i].raised # None)

(***************************************************************************)
(* C25: in download_targets an exception other than KeyboardInterrupt      *)
(* raised while processing a target is recorded as false for the target    *)
(* and every later target is still processed in order; a KeyboardInterrupt *)
(* is not isolated: the interrupt is re-raised and no later target is      *)
(* started.                                                                *)
(***************************************************************************)
C25_FaultIsolation ==
    \A i \in 1..Len(tExits) :
        /\ FailedCall(i) =>
              /\ tResults[i] = FALSE
              /\ \A j \in 1..Len(tStarted) : tStarted[j] = j
              /\ (tPc = "left" /\ \A k \in 1..Len(tExits) : ~InterruptedCall(k))
                    => Len(tStarted) = MaxTargets
        /\ InterruptedCall(i) =>
              /\ Len(tStarted) = i
              /\ tPc = "left"
              /\ tRaised = "KeyboardInterrupt"

\* the first half alone: exceptions that do not come from an interrupt
C25_ExceptionsIsolated ==
    \A i \in 1..Len(tExits) :
        FailedCall(i) =>
            /\ tResults[i] = FALSE
            /\ \A j \in 1..Len(tStarted) : tStarted[j] = j
            /\ (tPc = "left" /\ \A k \in 1..Len(tExits) : ~InterruptedCall(k))
                  => Len(tStarted) = MaxTargets

\* the interrupt of the first call was turned into a CheckpointError, the
\* call recorded as failed and the next target started
C25_InterruptSwallowed ==
    /\ Len(tExits) >= 2
    /\ tExits[1] = [via |-> "interrupt", raised |-> "CheckpointError"]
    /\ tResults[1] = FALSE
    /\ tStarted[2] = 2

(***************************************************************************)
(* The executor specification: the media jobs of one post in the           *)
(* ThreadPoolExecutor of download_target, the collection loop, and the     *)
(* ways the "with" block is left.                                          *)
(***************************************************************************)
\* the jobs in a state
JobsIn(st) == {j \in DOMAIN pJobs : pJobs[j] = st}

\* Future.cancel(): a job no worker has taken is cancelled, a running or a
\* finished one is left as it is
Cancel(st) == IF st = "queued" THEN "cancelled" ELSE st

PoolInit ==
    /\ pWorkers \in 1..MaxWorkers
    /\ pJobs \in UNION {[1..n -> {"queued"}] : n \in 1..PoolMaxJobs}
    /\ pQueued = {}
    /\ pAfter = {}
    /\ pCounted = {}
    /\ pPc = "collect"
    /\ pFlushed = FALSE
    /\ pRaised = None
    /\ IterIdle
    /\ CkIdle
    /\ RateIdle
    /\ DlIdle
    /\ RunIdle
    /\ LockIdle
    /\ ReqIdle
    /\ StampIdle
    /\ EvIdle
    /\ OptIdle
    /\ TgIdle
    /\ SeqIdle
    /\ MetaIdle
    /\ LifeIdle

\* a worker thread takes the oldest job of the queue; the workers go on
\* doing so while the executor shuts down
PoolStart ==
    /\ pPc \in {"collect", "posted", "unwinding"}
    /\ JobsIn("queued") # {}
    /\ Cardinality(JobsIn("running")) < pWorkers
    /\ LET j == CHOOSE k \in JobsIn("queued") : \A l \in JobsIn("queued") : k <= l
       IN  /\ pJobs' = [pJobs EXCEPT ![j] = "running"]
           /\ pAfter' = IF pPc = "unwinding" THEN pAfter \cup {j} ELSE pAfter
    /\ UNCHANGED <<pWorkers, pQueued, pPc, pFlushed, pRaised, pCounted>>
    /\ PoolFrame

\* _download returns in its worker thread
PoolFinish ==
    /\ \E j \in JobsIn("running") : pJobs' = [pJobs EXCEPT ![j] = "done"]
    /\ UNCHANGED <<pWorkers, pQueued, pAfter, pPc, pFlushed, pRaised, pCounted>>
    /\ PoolFrame

\* as_completed has yielded every future: the post is done and POST_DONE is
\* emitted
PoolCollected ==
    /\ pPc = "collect"
    /\ JobsIn("done") = DOMAIN pJobs
    /\ pPc' = "posted"
    /\ UNCHANGED <<pWorkers, pJobs, pQueued, pAfter, pFlushed, pRaised, pCounted>>
    /\ PoolFrame

\* FuturesTimeoutError: every future not yet yielded is cancelled and counted
\* as failed; then the post ends like any other, with POST_DONE
PoolTimeout ==
    /\ pPc = "collect"
    /\ JobsIn("done") # DOMAIN pJobs
    /\ pJobs' = [j \in DOMAIN pJobs |-> Cancel(pJobs[j])]
    /\ pCounted' = DOMAIN pJobs \ JobsIn("done")
    /\ pPc' = "posted"
    /\ UNCHANGED <<pWorkers, pQueued, pAfter, pFlushed, pRaised>>
    /\ PoolFrame

\* a KeyboardInterrupt is raised in the main thread while it waits in
\* as_completed; it unwinds to the end of the "with" block, no handler on
\* the way cancelling a future
PoolInterrupt ==
    /\ pPc = "collect"
    /\ pQueued' = JobsIn("queued")
    /\ pPc' = "unwinding"
    /\ UNCHANGED <<pWorkers, pJobs, pAfter, pFlushed, pRaised, pCounted>>
    /\ PoolFrame

\* the end of the "with" block: shutdown(wait=True), which cancels nothing,
\* returns when the workers have emptied the queue; then the branch of download_target that caught
\* the interrupt runs _handle_interrupt and re-raises, or the normal end
\* returns
PoolShutdown ==
    /\ pPc \in {"unwinding", "posted"}
    /\ JobsIn("queued") = {} /\ JobsIn("running") = {}
    /\ IF pPc = "unwinding"
       THEN \E outcome \in SaveOutcomes, so \in StampSaveOutcomes :
               /\ pFlushed' = (outcome # "raised" /\ so # "raised")
               /\ pRaised' = IF outcome = "raised" THEN "CheckpointError"
                             ELSE IF so = "raised" THEN "OSError"
                             ELSE "KeyboardInterrupt"
       ELSE UNCHANGED <<pFlushed, pRaised>>
    /\ pPc' = "left"
    /\ UNCHANGED <<pWorkers, pJobs, pQueued, pAfter, pCounted>>
    /\ PoolFrame

PoolNextRel ==
    \/ PoolStart
    \/ PoolFinish
    \/ PoolCollected
    \/ PoolTimeout
    \/ PoolInterrupt
    \/ PoolShutdown
SpecPool == PoolInit /\ [][PoolNextRel]_vars

(***************************************************************************)
(* C26: when a KeyboardInterrupt unwinds the orchestrator during a post's  *)
(* media collection, the jobs of the post that have not started are        *)
(* cancelled and never execute, and the interrupt is re-raised only after  *)
(* the checkpoint and the stamps have been flushed.                        *)
(***************************************************************************)
C26_InterruptCancelsUnstartedJobs ==
    /\ pAfter = {}
    /\ pPc = "left" => \A j \in pQueued : pJobs[j] = "cancelled"
    /\ pRaised = "KeyboardInterrupt" => pFlushed

\* the second half alone: the interrupt is re-raised after _save_ck and
\* _save_stamps have returned
C26_ReRaisedAfterFlush ==
    pRaised = "KeyboardInterrupt" => (pPc = "left" /\ pFlushed)

\* a job that was in the queue at the interrupt has run to its end when the
\* interrupt is re-raised
C26_UnstartedJobRan ==
    /\ pPc = "left"
    /\ pRaised = "KeyboardInterrupt"
    /\ \E j \in pQueued : j \in pAfter /\ pJobs[j] = "done"

(***************************************************************************)
(* The sequential specification: one thread calls wait_before_request and  *)
(* handle_response on the controller for one bucket; the clock advances between the calls *)
(* and, inside wait_before_request, by the controller's sleeps alone.      *)
(***************************************************************************)
\* no call of wait_before_request made yet
NoWait ==
    [called |-> FALSE, full |-> FALSE, oldest |-> 0, backoff |-> FALSE,
     returned |-> 0]

SeqInit ==
    /\ sCfg \in SeqConfigs
    /\ sB \in Buckets
    /\ sNow = 0
    /\ sState = [b \in Buckets |-> NewBucket]
    /\ sBases = [b \in Buckets |-> <<>>]
    /\ sLastStatus = [b \in Buckets |-> None]
    /\ sLastWait = NoWait
    /\ IterIdle
    /\ CkIdle
    /\ RateIdle
    /\ DlIdle
    /\ RunIdle
    /\ LockIdle
    /\ ReqIdle
    /\ StampIdle
    /\ EvIdle
    /\ OptIdle
    /\ TgIdle
    /\ PoolIdle
    /\ MetaIdle
    /\ LifeIdle

\* time passes between two calls
SeqAdvance ==
    /\ sNow < SeqMaxTime
    /\ sNow' = sNow + 1
    /\ UNCHANGED <<sCfg, sB, sState, sBases, sLastStatus, sLastWait>>
    /\ SeqFrame

\* wait_before_request(b), from the call to the return
SeqWait(b) ==
    LET r == WaitLoop(sCfg, sState[b], b, sNow)
        held == Evicted(sState[b].timestamps, sNow, sCfg.window)
    IN  /\ r.t <= SeqMaxTime
        /\ sState' = [sState EXCEPT ![b] = r.st]
        /\ sNow' = r.t
        /\ sLastWait' = [called |-> TRUE, full |-> Len(held) >= sCfg.limit,
                         oldest |-> IF held = <<>> THEN 0 ELSE Head(held),
                         backoff |-> sState[b].backoff_until > sNow,
                         returned |-> r.t]
        /\ UNCHANGED <<sCfg, sB, sBases, sLastStatus>>
        /\ SeqFrame

\* handle_response(b, status)
SeqHandle(b) ==
    /\ \E status \in RespStatuses :
          /\ sLastStatus' = [sLastStatus EXCEPT ![b] = StatusClass(status)]
          /\ IF Throttled(status)
             THEN /\ sState[b].failures < SeqMaxFailures
                  /\ LET f == sState[b].failures + 1
                         base == BackoffBase(f)
                     IN  /\ \E jitter \in Jitters(base) :
                                sState' = [sState EXCEPT ![b] =
                                             [@ EXCEPT !.failures = f,
                                                       !.backoff_until = sNow + base + jitter]]
                         /\ sBases' = [sBases EXCEPT ![b] = Append(@, base)]
             ELSE IF Success(status)
             THEN /\ sState' = [sState EXCEPT ![b] =
                                  [@ EXCEPT !.failures = 0, !.backoff_until = 0]]
                  /\ sBases' = [sBases EXCEPT ![b] = <<>>]
             ELSE UNCHANGED <<sState, sBases>>
    /\ UNCHANGED <<sCfg, sB, sNow, sLastWait>>
    /\ SeqFrame

SeqNextRel ==
    \/ SeqAdvance
    \/ SeqWait(sB)
    \/ SeqHandle(sB)
SpecSeq == SeqInit /\ [][SeqNextRel]_vars

(***************************************************************************)
(* C31: backoff monotonicity. For consecutive 403/418 responses on a       *)
(* bucket with no 2xx-3xx response between them the base delay             *)
(* min(base_delay * 2^(failures-1), max_delay) is non-decreasing and never *)
(* above max_delay; after a 2xx-3xx response the failure counter is 0 and  *)
(* the backoff cleared, and the next failure's base delay is base_delay.   *)
(***************************************************************************)
C31_BackoffMonotonic ==
    \A b \in Buckets :
        /\ Len(sBases[b]) = sState[b].failures
        /\ \A i \in DOMAIN sBases[b] :
              /\ sBases[b][i] <= MaxDelay
              /\ i > 1 => sBases[b][i - 1] <= sBases[b][i]
        /\ sBases[b] # <<>> => sBases[b][1] = BaseDelay
        /\ sLastStatus[b] = "success" =>
              (sState[b].failures = 0 /\ sState[b].backoff_until = 0)

\* a run of three failures on a bucket, the third with the capped base
\* delay, and a call of wait_before_request that found the backoff pending
C31_Witness ==
    \E b \in Buckets :
        /\ Len(sBases[b]) >= 3
        /\ sBases[b][1] = BaseDelay
        /\ sBases[b][3] = MaxDelay
        /\ sBases[b][3] < BaseDelay * Pow2(2)
        /\ sLastWait.called /\ sLastWait.backoff

(***************************************************************************)
(* C33: with a single caller, no pending backoff and a clock that advances *)
(* only by the controller's own sleep, a wait_before_request issued when   *)
(* the bucket already holds L requests in the window returns exactly when  *)
(* the oldest of them leaves the window, and not later.                    *)
(***************************************************************************)
C33_ReturnsWhenOldestLeaves ==
    (sLastWait.called /\ sLastWait.full /\ ~sLastWait.backoff) =>
        sLastWait.returned = sLastWait.oldest + sCfg.window

\* the same for the calls no minimum interval applies to: the media bucket,
\* or request_interval 0
C33_ReturnsWhenOldestLeavesNoInterval ==
    (/\ sLastWait.called /\ sLastWait.full /\ ~sLastWait.backoff
     /\ (sB = "media" \/ sCfg.interval = 0)) =>
        sLastWait.returned = sLastWait.oldest + sCfg.window

\* a call that found the window full, with requests recorded at different
\* times, and returned when the oldest left it
C33_Witness ==
    /\ sLastWait.called /\ sLastWait.full /\ ~sLastWait.backoff
    /\ sCfg.interval = 0
    /\ sLastWait.oldest > 0
    /\ sLastWait.returned = sLastWait.oldest + sCfg.window
    /\ Len(sState[sB].timestamps) = sCfg.limit
    /\ sState[sB].timestamps[1] < sLastWait.returned

\* the bucket the call of caller c is on, in a step that moves the caller
CallBucket(c) == IF cst[c].pc = "idle" THEN cst'[c].bucket ELSE cst[c].bucket

\* the bucket's own state asks for no wait at the clock reading t
OwnStateFree(b, t) ==
    /\ Len(EvictOld(bstate[b].timestamps, t)) < Limit
    /\ bstate[b].backoff_until <= t
    /\ (b = "api" /\ interval > 0 /\ bstate[b].last_request_at # NoRequest)
          => bstate[b].last_request_at + interval <= t

(***************************************************************************)
(* C32: bucket isolation. wait_before_request(b) and handle_response(b,    *)
(* status) leave every field of the other bucket's state unchanged, and a  *)
(* request is never delayed by the other bucket: a call whose own bucket   *)
(* is neither full nor backed off (nor inside the api interval) computes   *)
(* no wait, whatever the state of the other bucket.                        *)
(***************************************************************************)
C32_BucketIsolation ==
    [][/\ \A c \in Callers :
             cst'[c] # cst[c] =>
                 \A o \in Buckets \ {CallBucket(c)} : bstate'[o] = bstate[o]
       /\ \A b \in Buckets :
             bstate'[b] # bstate[b] =>
                 \A o \in Buckets \ {b} : bstate'[o] = bstate[o]
       /\ \A c \in Callers :
             (cst[c].pc = "enter" /\ cst'[c].pc = "decided"
              /\ OwnStateFree(cst[c].bucket, now))
                 => cst'[c].wait <= 0]_vars

\* the api bucket is full and backed off, and the media bucket recorded a
\* request during the backoff
C32_Witness ==
    /\ Len(bstate["api"].timestamps) = Limit
    /\ bstate["api"].failures > 0
    /\ bstate["api"].backoff_until > now
    /\ bstate["media"] = Recorded(NewBucket, now)
    /\ now > 0

\* the positions of the calls of an operation in the trace
CallsOf(op) == {i \in DOMAIN qTrace : qTrace[i].op = op}

(***************************************************************************)
(* C34: within request(), every HTTP attempt is immediately preceded by    *)
(* exactly one wait_before_request for the caller's bucket, every received *)
(* response is passed exactly once to handle_response(bucket, status)      *)
(* before it is classified, and an attempt that fails at transport level   *)
(* produces no handle_response call.                                       *)
(***************************************************************************)
C34_RateCallsBracketAttempts ==
    /\ Cardinality(CallsOf("session.request")) = qSent
    /\ Cardinality(CallsOf("wait_before_request")) = qSent
    /\ \A i \in CallsOf("session.request") :
          /\ i > 1
          /\ qTrace[i - 1] = Call("wait_before_request", qBucket, NoStatus)
    /\ Cardinality(CallsOf("handle_response"))
          = Cardinality({k \in DOMAIN qLog : qLog[k].status # NoStatus})
    /\ \A i \in CallsOf("handle_response") :
          /\ qTrace[i].bucket = qBucket
          /\ qTrace[i].status # NoStatus
          /\ qTrace[i - 1].op = "session.request"
          /\ i < Len(qTrace)
          /\ qTrace[i + 1] = Call("_handle_response", None, qTrace[i].status)
    /\ \A i \in CallsOf("_handle_response") :
          qTrace[i - 1] = Call("handle_response", qBucket, qTrace[i].status)

\* a call on the media bucket whose first attempt failed at transport level
\* and whose second met a 403 and third a 200
C34_Witness ==
    /\ qBucket = "media"
    /\ Len(qLog) = 3
    /\ qLog[1].status = NoStatus
    /\ qLog[2].status = 403
    /\ qLog[3].status = 200
    /\ qResult = "return"
    /\ Len(qTrace) = 10

(***************************************************************************)
(* C35: within one post the media jobs that run concurrently write to      *)
(* pairwise disjoint files: the destinations are distinct, no two jobs     *)
(* share a temporary .part file, and a job that returns DOWNLOADED leaves  *)
(* at its destination exactly the bytes fetched from its own URL.          *)
(***************************************************************************)
C35_JobsWriteDisjointFiles ==
    \A j \in Jobs :
        /\ \A k \in Jobs \ {j} :
              /\ dlDest[j] # dlDest[k]
              /\ PartOf(dlDest[j]) # PartOf(dlDest[k])
        /\ ret[j].outcome = "DOWNLOADED" =>
              ret[j].dest = [exists |-> TRUE, data |-> Body(j)]

\* the first third alone: _media_jobs gives the jobs distinct destinations
C35_DestinationsDistinct ==
    \A j, k \in Jobs : j # k => dlDest[j] # dlDest[k]

\* two jobs with one temporary file, one of which returned DOWNLOADED with
\* a destination that does not hold its body
C35_SharedPartCorrupts ==
    \E j, k \in Jobs :
        /\ j # k
        /\ PartOf(dlDest[j]) = PartOf(dlDest[k])
        /\ ret[j].outcome = "DOWNLOADED"
        /\ ret[j].dest.data # Body(j)

(***************************************************************************)
(* C36: when POST_DONE is emitted for a post, none of the post's media     *)
(* workers is still running or can still create or replace a file, also on *)
(* the per-post timeout path, where a job counted as failed does not later *)
(* complete its download in the background.                                *)
(***************************************************************************)
C36_NoWorkerAfterPostDone ==
    /\ pPc = "posted" => (JobsIn("running") = {} /\ JobsIn("queued") = {})
    /\ \A j \in pCounted : pJobs[j] # "done"

\* the half without the timeout: after a collection that yielded every
\* future no worker is left
C36_NoWorkerAfterFullCollection ==
    (pPc = "posted" /\ pCounted = {}) => JobsIn("done") = DOMAIN pJobs

\* a job the timeout handler counted as failed has run to its end after
\* POST_DONE
C36_FailedJobCompleted ==
    /\ pPc = "posted"
    /\ \E j \in pCounted : pJobs[j] = "done"

(***************************************************************************)
(* C37: every key the orchestrator ever writes into the watermark map, on  *)
(* normal end, on error and on interrupt, is the target key of the         *)
(* processed target, the key from which the target's cutoff is read on the *)
(* next run.                                                               *)
(***************************************************************************)
C37_StampKeyIsTargetKey ==
    [][\A k \in StampKeys : wStamps'[k] # wStamps[k] => k = TargetKey]_vars

\* the half on the normal end: a run that ends normally changes no entry
\* but the one under the target key
C37_NormalEndWritesTargetKey ==
    [][(wPc' = "done" /\ wPc # "done") =>
          \A k \in StampKeys : wStamps'[k] # wStamps[k] => k = TargetKey]_vars

\* a handler has written the watermark under the checkpoint key and the
\* next run read no cutoff
C37_WrittenUnderCheckpointKey ==
    /\ wRun = 2
    /\ wLoaded[CkKey] # NoStamp
    /\ wLoaded[TargetKey] = NoStamp
    /\ wCutoff = NoStamp

(***************************************************************************)
(* The metadata specification: with metadata_json set, download_target     *)
(* calls _write_json for each post it processes; Path.write_text opens     *)
(* <mid>.json for writing, writes the text and closes the file.            *)
(***************************************************************************)
\* json.dumps(post.raw, ...) of post m, as the chunks that reach the disk
JsonText(m) == [i \in 1..MetaMaxChunks |-> <<m, i>>]

\* the text an earlier run wrote for a post whose raw data was different
OldJsonText(m) == <<<<"old", m>>>>

\* what <mid>.json may be before the run: absent, or complete from an
\* earlier run with the same or with other raw data
PriorJson(m) ==
    {NoFile, [exists |-> TRUE, data |-> OldJsonText(m)],
     [exists |-> TRUE, data |-> JsonText(m)]}

\* open(path, "w"): the file is created, or truncated if it exists
OpenedForWriting(f) == [exists |-> TRUE, data |-> <<>>]

MetaInit ==
    /\ mDir \in {d \in [Mids -> UNION {PriorJson(m) : m \in Mids}] :
                    \A m \in Mids : d[m] \in PriorJson(m)}
    /\ mPrev = mDir
    /\ mCur = None
    /\ mPc = "loop"
    /\ mDone = {}
    /\ IterIdle
    /\ CkIdle
    /\ RateIdle
    /\ DlIdle
    /\ RunIdle
    /\ LockIdle
    /\ ReqIdle
    /\ StampIdle
    /\ EvIdle
    /\ OptIdle
    /\ TgIdle
    /\ PoolIdle
    /\ SeqIdle
    /\ LifeIdle

\* _write_json(target_dir, post) begins: write_text opens the file
MetaOpen ==
    /\ mPc = "loop"
    /\ \E m \in Mids \ mDone :
          /\ mCur' = m
          /\ mDir' = [mDir EXCEPT ![m] = OpenedForWriting(@)]
    /\ mPc' = "write"
    /\ UNCHANGED <<mPrev, mDone>>
    /\ MetaFrame

\* the next part of the text reaches the file
MetaWrite ==
    /\ mPc = "write"
    /\ Len(mDir[mCur].data) < MetaMaxChunks
    /\ mDir' = [mDir EXCEPT ![mCur].data = Append(@, JsonText(mCur)[Len(@) + 1])]
    /\ UNCHANGED <<mPrev, mCur, mPc, mDone>>
    /\ MetaFrame

\* the text is written and the file closed: _write_json returns
MetaClose ==
    /\ mPc = "write"
    /\ Len(mDir[mCur].data) = MetaMaxChunks
    /\ mPc' = "loop"
    /\ mDone' = mDone \cup {mCur}
    /\ mCur' = None
    /\ UNCHANGED <<mDir, mPrev>>
    /\ MetaFrame

\* a write raises OSError (the disk is full): the exception leaves
\* _write_json and the loop, the file stays as it is
MetaRaise ==
    /\ mPc = "write"
    /\ Len(mDir[mCur].data) < MetaMaxChunks
    /\ mPc' = "failed"
    /\ UNCHANGED <<mDir, mPrev, mCur, mDone>>
    /\ MetaFrame

MetaNextRel == MetaOpen \/ MetaWrite \/ MetaClose \/ MetaRaise
SpecMeta == MetaInit /\ [][MetaNextRel]_vars

(***************************************************************************)
(* C38: with metadata_json set, <mid>.json is written atomically: a crash  *)
(* or an error at any point of the write leaves either the previous state  *)
(* of the file (absent, or the complete old content) or the complete new   *)
(* content, never partial content.                                         *)
(***************************************************************************)
C38_MetadataWrittenAtomically ==
    \A m \in Mids :
        \/ mDir[m] = mPrev[m]
        \/ mDir[m] = [exists |-> TRUE, data |-> JsonText(m)]

\* once _write_json has returned the file holds the complete new text
C38_CompleteAfterReturn ==
    \A m \in mDone : mDir[m] = [exists |-> TRUE, data |-> JsonText(m)]

\* a failed write has left the first part only of the new text where the
\* complete old text was
C38_PartialAfterError ==
    /\ mPc = "failed"
    /\ mPrev[mCur].exists /\ mPrev[mCur].data = OldJsonText(mCur)
    /\ mDir[mCur].data = SubSeq(JsonText(mCur), 1, 1)

(***************************************************************************)
(* The iterator's life: next(), freeze() and thaw() in any order on one    *)
(* iterator.                                                               *)
(***************************************************************************)
NoNext ==
    [called |-> FALSE, page |-> 0, buffer |-> <<>>, ended |-> FALSE,
     fetched |-> <<>>, post |-> None, twin |-> None]

LifeInit ==
    /\ nUp \in Upstreams
    /\ nIt = NewIterator(CurHash)
    /\ nTwin = NewIterator(CurHash)
    /\ nFrozen = <<>>
    /\ nSaved = <<>>
    /\ nThawed = <<>>
    /\ nEnded = FALSE
    /\ nCall = NoNext
    /\ nThaws = 0
    /\ IterIdle
    /\ CkIdle
    /\ RateIdle
    /\ DlIdle
    /\ RunIdle
    /\ LockIdle
    /\ ReqIdle
    /\ StampIdle
    /\ EvIdle
    /\ OptIdle
    /\ TgIdle
    /\ PoolIdle
    /\ SeqIdle
    /\ MetaIdle

\* a fetched page after which __next__ fetches no more
EndsListing(r) == ~r.has_more

\* next(), on the iterator and on its twin
LifeNext ==
    /\ LET r == IterNext(nIt, nUp)
           t == IterNext(nTwin, nUp)
           f == FetchedPages(nIt, nUp)
       IN  /\ nIt' = r.it
           /\ nTwin' = t.it
           /\ nCall' = [called |-> TRUE, page |-> nIt.page,
                        buffer |-> nIt.buffer, ended |-> nEnded,
                        fetched |-> f, post |-> r.post, twin |-> t.post]
           /\ nEnded' = (nEnded \/ \E i \in DOMAIN f : EndsListing(f[i]))
    /\ nFrozen' = <<>>
    /\ nThawed' = <<>>
    /\ UNCHANGED <<nUp, nSaved, nThaws>>
    /\ LifeFrame

\* freeze(), on the iterator alone; the caller may keep the state
LifeFreeze ==
    /\ Len(nFrozen) < 2
    /\ \E order \in Orderings(nIt.seen), ts \in Timestamps, keep \in BOOLEAN :
          LET st == Freeze(nIt, order, ts)
          IN  /\ nFrozen' = Append(nFrozen, st)
              /\ nSaved' = IF keep THEN <<st>> ELSE nSaved
    /\ nIt' = AfterFreeze(nIt)
    /\ UNCHANGED <<nUp, nTwin, nThawed, nEnded, nCall, nThaws>>
    /\ LifeFrame

\* thaw(s) with a state kept earlier, on the iterator and on its twin
LifeThaw ==
    /\ nSaved # <<>>
    /\ nThaws < LifeMaxThaws
    /\ nIt' = Thaw(nIt, nSaved[1])
    /\ nTwin' = Thaw(nTwin, nSaved[1])
    /\ nThawed' = nSaved
    /\ nFrozen' = <<>>
    /\ nEnded' = FALSE
    /\ nCall' = NoNext
    /\ nThaws' = nThaws + 1
    /\ UNCHANGED <<nUp, nSaved>>
    /\ LifeFrame

LifeNextRel == LifeNext \/ LifeFreeze \/ LifeThaw
SpecLife == LifeInit /\ [][LifeNextRel]_vars

(***************************************************************************)
(* C39: freeze() does not change the iterator. Two freeze() calls with no  *)
(* next() or thaw() in between return the same page, cursor, set of seen   *)
(* mids and options hash; the posts yielded afterwards are those yielded   *)
(* had freeze not been called; thaw(s) followed by freeze() returns the    *)
(* page, cursor and seen set of s.                                         *)
(***************************************************************************)
SamePosition(a, b) ==
    /\ a.page = b.page
    /\ a.cursor = b.cursor
    /\ Range(a.seen_mids) = Range(b.seen_mids)

C39_FreezeLeavesIterator ==
    /\ Len(nFrozen) = 2 =>
          /\ SamePosition(nFrozen[1], nFrozen[2])
          /\ nFrozen[1].options_hash = nFrozen[2].options_hash
    /\ nIt = nTwin
    /\ nCall.called => nCall.post = nCall.twin
    /\ (nThawed # <<>> /\ nFrozen # <<>>) =>
          \A i \in DOMAIN nFrozen : SamePosition(nFrozen[i], nThawed[1])

\* frozen twice in a row, at different clock readings, with posts seen and
\* posts buffered, and a post yielded since an earlier freeze
C39_Witness ==
    /\ Len(nFrozen) = 2
    /\ nFrozen[1].timestamp # nFrozen[2].timestamp
    /\ nFrozen[1].seen_mids # <<>>
    /\ nIt.buffer # <<>>
    /\ nSaved # <<>> /\ nSaved[1].page < nIt.page

(***************************************************************************)
(* C40: the page counter grows by exactly 1 per fetch_page call and never  *)
(* decreases; once a fetched page is empty or the upstream reports no      *)
(* further pages, the iterator yields the posts still buffered, then       *)
(* signals the end, fetches no further page, and signals the end again on  *)
(* every later next() until thaw is called.                                *)
(***************************************************************************)
C40_PageCounterAndEnd ==
    /\ nCall.called =>
          /\ nIt.page = nCall.page + Len(nCall.fetched)
          /\ \A i \in DOMAIN nCall.fetched :
                (i < Len(nCall.fetched)) =>
                    (nCall.fetched[i].posts # <<>> /\ nCall.fetched[i].cursor # None)
          /\ nCall.ended =>
                /\ nCall.fetched = <<>>
                /\ nCall.post = (IF nCall.buffer = <<>> THEN None
                                                       ELSE Head(nCall.buffer))
    /\ nEnded <=> (nCall.called /\
                    (nCall.ended \/ \E i \in DOMAIN nCall.fetched :
                        (nCall.fetched[i].posts = <<>> \/ nCall.fetched[i].cursor = None)))

\* the listing ended with two posts buffered; the first was yielded by the
\* call that fetched the last page, the second by the next call, with no
\* fetch
C40_Witness ==
    /\ nCall.called /\ nCall.ended
    /\ nCall.buffer # <<>> /\ nCall.post # None
    /\ nCall.page > 2

\* the end is signalled again, with no fetch, by a next() after the end
C40_WitnessEndAgain ==
    /\ nCall.called /\ nCall.ended
    /\ nCall.buffer = <<>> /\ nCall.post = None /\ nCall.fetched = <<>>
    /\ nIt.seen # {}

====
